---- MODULE Spec2Model ----
(***************************************************************************)
(* A state-machine model of the SFC repository: the TransformCache of the  *)
(* compiler side (src/cache.ts), the dev server's transform cache          *)
(* (server.js) and the runtime wiring engine (src/runtime).                *)
(*                                                                         *)
(* The module holds several specifications, one per subsystem.  Every      *)
(* specification starts from the same Init; the variables of the other     *)
(* subsystems stay at their initial value.                                 *)
(***************************************************************************)
EXTENDS Integers, Sequences, FiniteSets, TLC

VARIABLES
  \* ---- TransformCache (cache.ts) and the files it stats
  cache,        \* Map<string, CacheEntry>: a function on the ids present
  accessOrder,  \* string[]: the ids in access order, oldest first
  dirty,        \* boolean
  fileMtime,    \* the file system: mtimeMs of each file, NoFile when missing
  ret,          \* history: the last call of get or set and whether it hit
  recency,      \* history: the ids present, least recently used first
  stored,       \* history: the payload last handed to set for each id present
  \* ---- runtime wiring engine (runtime/index.ts), class components
  registry,     \* customElements: the constructor defined for the tag, 0 when none
  latest,       \* history: the constructor last passed to defineComponent, 0 when none
  wiringCache,  \* Wrapped.__sfc_wiring_cache of each constructor, Null when unset
  discoveries,  \* history: the prototype-chain walks run for each constructor
  inst,         \* the element instances
  attached,     \* the listeners attached on behalf of each instance, in attach order
  microtasks,   \* the microtask queue: the instances whose wiring is pending
  \* ---- time, events and timers of the wired instances
  now,          \* the clock, in milliseconds
  timers,       \* the pending setTimeout of each timing wrapper: its due time, 0 when none
  calls,        \* history: the invocations of the original methods, with their time
  events,       \* history: the events dispatched on each component root, with their time
  \* ---- the dev server (server.js): its transform cache and the requests it serves
  srvFile,          \* the component file on disk: its mtimeMs and its text
  transformedCache, \* Map: the entries in insertion order
  currentCacheSize, \* let currentCacheSize
  req,              \* the requests in flight
  \* ---- defineComponent(opts), the options shape (runtime/index.ts)
  optElements,  \* customElements: the tags defined through the options path
  optLast,      \* history: the last defineComponent(opts) call and how it ended
  optInst,      \* the instances of SFCElement
  \* ---- the annotation extractor of the plugin's load hook (index.ts)
  exIn,         \* the script handed to the extractor
  exOut,        \* what it returned: the script, the metadata, the strategy
  \* ---- the durable snapshot of the TransformCache (cache.ts)
  snapshot,     \* history: the snapshot the constructor loaded and how the load ended
  \* ---- transformSFC (index.ts): the route block and the style regions
  routePath,    \* attrs.path of the route block, as a string of characters
  paramNames,   \* the paramNames derived from it
  styleIn,      \* the style regions of the unit, in source order
  styleOut,     \* localCss and globalCss
  \* ---- interpolateTemplate (runtime/index.ts)
  tplIn,        \* a text node and the params object
  tplOut,       \* the text node after interpolation
  \* ---- one timing wrapper of one instance (runtime/index.ts)
  thWrap,       \* the wrapper: its annotation and the delay it closed over
  thNow,        \* Date.now()
  thLast,       \* throttle: let last
  thTimer,      \* debounce: let t, the due time of the pending setTimeout
  thCalls,      \* history: the calls of the wrapper and the runs of the original
  \* ---- transformSFC (index.ts): the block extractor
  scanIn,       \* the source text of the unit
  scanOut,      \* the positions of the style tags the style loop finds
  \* ---- the snapshot file of the TransformCache (cache.ts)
  durable,      \* the entries of the file at persistPath
  \* ---- attachStyles (runtime/index.ts)
  attachedStylesMap,  \* root -> the hash keys already applied to it
  sheetCache,         \* attachStyles._sheetCache: hash key -> the css of the constructed sheet
  adoptedStyleSheets, \* host (a shadow root or the document) -> its adopted sheets, by key
  styleTags,          \* target (a shadow root or document.head) -> the css of its <style> tags
  supportsAdopted,    \* whether the browser has adoptedStyleSheets ("unset" before the first call)
  \* ---- the SPA router (main.ts)
  routes,             \* the route table of virtual:routes, once the module is imported
  loadedModules,      \* the module keys whose import has resolved
  currentRouteElement,\* the element the router mounted last
  body,               \* the route elements in document.body
  location,           \* the URL of the current history entry
  navs,               \* the calls of navigateToRoute from outside, in request order
  lastNav,            \* how many of them were requested
  transitions,        \* view transitions: whether they are used, and the callbacks not yet run
  \* ---- the shop database (shop-db.js)
  stock,              \* products.stock by product id
  cartItems,          \* cart_items by session: [product, quantity] rows in rowid order
  orders,             \* orders with their order_items, in rowid order
  shopRet             \* the shopDb call that ran last and how it ended

cacheVars == <<cache, accessOrder, dirty, fileMtime, ret, recency, stored>>
wireVars == <<registry, latest, wiringCache, discoveries, inst, attached, microtasks>>
timeVars == <<now, timers, calls, events>>
srvVars == <<srvFile, transformedCache, currentCacheSize, req>>
optVars == <<optElements, optLast, optInst>>
exVars == <<exIn, exOut>>
loadVars == <<snapshot>>
routeVars == <<routePath, paramNames>>
styleVars == <<styleIn, styleOut>>
tplVars == <<tplIn, tplOut>>
compVars == <<routeVars, styleVars, tplVars>>
thVars == <<thWrap, thNow, thLast, thTimer, thCalls>>
scanVars == <<scanIn, scanOut>>
persistVars == <<durable>>
attVars == <<attachedStylesMap, sheetCache, adoptedStyleSheets, styleTags, supportsAdopted>>
shopVars == <<stock, cartItems, orders, shopRet>>
navVars == <<routes, loadedModules, currentRouteElement, body, location, navs, lastNav, transitions>>

vars == <<cacheVars, wireVars, timeVars, srvVars, optVars, exVars, loadVars, compVars, thVars, scanVars, persistVars, attVars, navVars, shopVars>>

\* what the actions of each subsystem leave alone
cacheFrame == <<wireVars, timeVars, srvVars, optVars, exVars, loadVars, compVars, thVars, scanVars, persistVars, attVars, navVars, shopVars>>
wireFrame == <<cacheVars, timeVars, srvVars, optVars, exVars, loadVars, compVars, thVars, scanVars, persistVars, attVars, navVars, shopVars>>
timeFrame == <<cacheVars, srvVars, optVars, exVars, loadVars, compVars, thVars, scanVars, persistVars, attVars, navVars, shopVars>>
srvFrame == <<cacheVars, wireVars, timeVars, optVars, exVars, loadVars, compVars, thVars, scanVars, persistVars, attVars, navVars, shopVars>>
optFrame == <<cacheVars, wireVars, timeVars, srvVars, exVars, loadVars, compVars, thVars, scanVars, persistVars, attVars, navVars, shopVars>>
exFrame == <<cacheVars, wireVars, timeVars, srvVars, optVars, loadVars, compVars, thVars, scanVars, persistVars, attVars, navVars, shopVars>>
loadFrame == <<wireVars, timeVars, srvVars, optVars, exVars, compVars, thVars, scanVars, persistVars, attVars, navVars, shopVars>>
compFrame == <<cacheVars, wireVars, timeVars, srvVars, optVars, exVars, loadVars, thVars, scanVars, persistVars, attVars, navVars, shopVars>>
thFrame == <<cacheVars, wireVars, timeVars, srvVars, optVars, exVars, loadVars, compVars, scanVars, persistVars, attVars, navVars, shopVars>>
scanFrame == <<cacheVars, wireVars, timeVars, srvVars, optVars, exVars, loadVars, compVars, thVars, persistVars, attVars, navVars, shopVars>>
persistFrame == <<wireVars, timeVars, srvVars, optVars, exVars, loadVars, compVars, thVars, scanVars, attVars, navVars, shopVars>>
attFrame == <<cacheVars, wireVars, timeVars, srvVars, optVars, exVars, loadVars, compVars, thVars, scanVars, persistVars, navVars, shopVars>>
navFrame == <<cacheVars, wireVars, timeVars, srvVars, optVars, exVars, loadVars, compVars, thVars, scanVars, persistVars, attVars, shopVars>>
shopFrame == <<cacheVars, wireVars, timeVars, srvVars, optVars, exVars, loadVars, compVars, thVars, scanVars, persistVars, attVars, navVars>>
routeFrame == <<compFrame, styleVars, tplVars>>
styleFrame == <<compFrame, routeVars, tplVars>>
tplFrame == <<compFrame, routeVars, styleVars>>

----------------------------------------------------------------------------
\* Bounds of the model

Ids == {"a", "b", "c"}        \* cache ids; the file of id is the file at path id
MaxEntries == 2               \* options.maxEntries of the cache under test
Mtimes == {1, 2}              \* the mtimes a file can have
MaxOrderLen == 3              \* accessOrder is explored up to this length
Codes == {"c1"}               \* payloads handed to set()
Payloads == {"c1", "c2"}      \* payloads handed to set() where they are compared

InstIds == {1, 2}             \* element instances
MaxCtor == 2                  \* constructors the component module is evaluated to
MaxNodes == 3                 \* elements mounted under one mount root
MaxQueue == 2                 \* pending microtasks
DebounceArg == 2              \* the argument of the debounce annotation

NoFile == 0                   \* statSync throws for this file
Null == [null |-> TRUE]       \* JavaScript null / undefined

----------------------------------------------------------------------------
\* Helpers on sequences (Array.prototype)

\* arr.indexOf(x): the first index holding x, 0 when there is none
IndexOf(s, x) ==
  IF \E i \in 1..Len(s) : s[i] = x
  THEN CHOOSE i \in 1..Len(s) : s[i] = x /\ \A j \in 1..(i - 1) : s[j] # x
  ELSE 0

\* idx = arr.indexOf(x); if (idx > -1) arr.splice(idx, 1)
SpliceOut(s, x) ==
  LET i == IndexOf(s, x)
  IN IF i = 0 THEN s
     ELSE [k \in 1..(Len(s) - 1) |-> IF k < i THEN s[k] ELSE s[k + 1]]

\* the function f without the key k (Map.delete)
MapDelete(f, k) == [x \in (DOMAIN f) \ {k} |-> f[x]]

\* the function f with k set to v (Map.set)
MapSet(f, k, v) == [x \in (DOMAIN f) \cup {k} |-> IF x = k THEN v ELSE f[x]]

EmptyMap == [x \in {} |-> Null]

\* every element of s, without repetition
Range(s) == {s[i] : i \in 1..Len(s)}

\* the sequences over S of length n at most
SeqsUpTo(S, n) == UNION {[1..k -> S] : k \in 0..n}

----------------------------------------------------------------------------
\* TransformCache

\* get(): the mtime check of an entry against fs.statSync(filePath).mtimeMs
MtimeMismatchLoose(entry, mtimeMs) == mtimeMs < entry.mtime
MtimeMismatchNotNewer(entry, mtimeMs) == mtimeMs >= entry.mtime
MtimeMismatch(entry, mtimeMs) == mtimeMs # entry.mtime

\* get(): what it does to the Map when the mtime does not match
EvictOnMismatch(c, id) == MapDelete(c, id)

\* set(): the condition of the eviction loop
AtCapacityOffByOne(c, order) == Cardinality(DOMAIN c) > MaxEntries /\ Len(order) > 0
AtCapacity(c, order) == Cardinality(DOMAIN c) >= MaxEntries /\ Len(order) > 0

\* set(): while (at capacity) { oldest = accessOrder.shift(); cache.delete(oldest) }
\* returns the Map, the order and the ids whose entry the loop removed
RECURSIVE EvictLoop(_, _, _)
EvictLoop(c, order, removed) ==
  IF AtCapacity(c, order)
  THEN LET oldest == Head(order)
       IN EvictLoop(MapDelete(c, oldest), Tail(order),
                    IF oldest \in DOMAIN c THEN Append(removed, oldest) ELSE removed)
  ELSE [cache |-> c, order |-> order, removed |-> removed]

\* history: the ids of s that are not in gone, order kept
RECURSIVE Without(_, _)
Without(s, gone) ==
  IF s = <<>> THEN <<>>
  ELSE IF Head(s) \in gone THEN Without(Tail(s), gone)
       ELSE <<Head(s)>> \o Without(Tail(s), gone)

TouchRecency(r, id) == Append(Without(r, {id}), id)

\* ret: which public method ran last, for which id, and how it ended:
\*   get: "hit" (the entry cache[id] is returned), "absent", "nostat" (statSync
\*        threw), "mismatch";  set: "stored", "evicted" (stored after the loop
\*        removed an entry), "nostat";  invalidate: "removed",
\*        "absent" (there was no entry);  clear: "done"
Ret(op, id, out) == [op |-> op, id |-> id, out |-> out]
NoRet == Ret("none", "none", "none")

Get(id) ==
  /\ UNCHANGED cacheFrame
  /\ IF id \notin DOMAIN cache
     THEN /\ ret' = Ret("get", id, "absent")
          /\ UNCHANGED <<cache, accessOrder, recency, stored>>
     ELSE IF fileMtime[id] = NoFile
     THEN /\ ret' = Ret("get", id, "nostat")
          /\ UNCHANGED <<cache, accessOrder, recency, stored>>
     ELSE IF MtimeMismatch(cache[id], fileMtime[id])
     THEN /\ cache' = EvictOnMismatch(cache, id)
          /\ ret' = Ret("get", id, "mismatch")
          /\ recency' = Without(recency, {id})
          /\ stored' = MapDelete(stored, id)
          /\ UNCHANGED accessOrder
     ELSE /\ accessOrder' = Append(SpliceOut(accessOrder, id), id)
          /\ ret' = Ret("get", id, "hit")
          /\ recency' = TouchRecency(recency, id)
          /\ UNCHANGED <<cache, stored>>
  /\ UNCHANGED <<dirty, fileMtime>>

\* the hash field of the entry (md5 of the file text) is written and never read;
\* the model leaves it out
Set(id, data) ==
  /\ UNCHANGED cacheFrame
  /\ IF fileMtime[id] = NoFile
     THEN /\ ret' = Ret("set", id, "nostat")
          /\ UNCHANGED <<cache, accessOrder, dirty, recency, stored>>
     ELSE LET entry == [code |-> data, mtime |-> fileMtime[id]]
              ev == EvictLoop(cache, accessOrder, <<>>)
          IN /\ Len(ev.order) < MaxOrderLen
             /\ cache' = MapSet(ev.cache, id, entry)
             /\ accessOrder' = Append(ev.order, id)
             /\ dirty' = TRUE
             /\ ret' = Ret("set", id, IF ev.removed = <<>> THEN "stored" ELSE "evicted")
             /\ recency' = TouchRecency(Without(recency, Range(ev.removed)), id)
             /\ stored' = MapSet([x \in (DOMAIN stored) \ Range(ev.removed) |-> stored[x]],
                                 id, data)
  /\ UNCHANGED fileMtime

\* an invalidate that drops the whole Map
DeleteEvery(c, id) == EmptyMap

\* invalidate(): this.cache.delete(id)
DeleteEntry(c, id) == MapDelete(c, id)

Invalidate(id) ==
  /\ UNCHANGED cacheFrame
  /\ cache' = DeleteEntry(cache, id)
  /\ accessOrder' = SpliceOut(accessOrder, id)
  /\ dirty' = TRUE
  /\ ret' = Ret("invalidate", id, IF id \in DOMAIN cache THEN "removed" ELSE "absent")
  /\ recency' = Without(recency, {id})
  /\ stored' = MapDelete(stored, id)
  /\ UNCHANGED fileMtime

Clear ==
  /\ UNCHANGED cacheFrame
  /\ cache' = EmptyMap
  /\ accessOrder' = <<>>
  /\ dirty' = TRUE
  /\ ret' = Ret("clear", "none", "done")
  /\ recency' = <<>>
  /\ stored' = EmptyMap
  /\ UNCHANGED fileMtime

\* persist(), with persistPath set: returns at once when the cache is not dirty;
\* writes the entries of the Map and clears dirty; a write that throws is
\* swallowed and leaves the file and dirty as they were
Persist(writeThrows) ==
  /\ UNCHANGED persistFrame
  /\ IF ~dirty
     THEN /\ ret' = Ret("persist", "none", "clean")
          /\ UNCHANGED <<dirty, durable>>
     ELSE IF writeThrows
     THEN /\ ret' = Ret("persist", "none", "failed")
          /\ UNCHANGED <<dirty, durable>>
     ELSE /\ durable' = cache
          /\ dirty' = FALSE
          /\ ret' = Ret("persist", "none", "written")
  /\ UNCHANGED <<cache, accessOrder, fileMtime, recency, stored>>

\* no snapshot file yet
InitPersist == durable = EmptyMap

\* the environment: the file of id is written and gets another mtime
ModifyFile(id) ==
  /\ UNCHANGED cacheFrame
  /\ \E m \in Mtimes \ {fileMtime[id]} :
       fileMtime' = [fileMtime EXCEPT ![id] = m]
  /\ ret' = NoRet
  /\ UNCHANGED <<cache, accessOrder, dirty, recency, stored>>

\* the environment: the file of id is removed
DeleteFile(id) ==
  /\ UNCHANGED cacheFrame
  /\ fileMtime[id] # NoFile
  /\ fileMtime' = [fileMtime EXCEPT ![id] = NoFile]
  /\ ret' = NoRet
  /\ UNCHANGED <<cache, accessOrder, dirty, recency, stored>>

InitCache ==
  /\ cache = EmptyMap
  /\ accessOrder = <<>>
  /\ dirty = FALSE
  /\ fileMtime = [id \in Ids |-> 1]
  /\ ret = NoRet
  /\ recency = <<>>
  /\ stored = EmptyMap

----------------------------------------------------------------------------
\* Runtime wiring engine: defineComponent(ctor) and the Wrapped class

RootEl == 0                   \* the component element; template elements are 1, 2, ...
NoSelector == ""              \* selector: null
NoType == ""                  \* eventType / transformType: undefined
DefaultDelay == 200           \* Number(args[0]) || 200
EventTypes == {"click", "input", "change"}
BadSelector == "#!"           \* querySelectorAll throws a SyntaxError for it
TimingTypes == {"debounce", "throttle"}

\* The class under test: the annotated methods of ctor.prototype, in
\* Object.getOwnPropertyNames order, each with its __sfc_decorators array.
\* Its template holds one element matching ".btn"; it declares a route.
\* The first method carries a selector that is not valid CSS.
ClassMethods(ctor) ==
  << [name |-> "onBad",
      decs |-> << [type |-> "click", args |-> <<BadSelector>>] >>],
     [name |-> "onBtn",
      decs |-> << [type |-> "click", args |-> <<".btn">>] >>],
     [name |-> "onType",
      decs |-> << [type |-> "oninput", args |-> <<>>],
                  [type |-> "debounce", args |-> <<DebounceArg>>] >>],
     [name |-> "onChange",
      decs |-> << [type |-> "debounce", args |-> <<DebounceArg>>],
                  [type |-> "change", args |-> <<>>] >> ] >>
HasTemplate == TRUE
HasRoute == TRUE

\* (meta.type || '').replace(/^on/, '')
StripOn(type) ==
  CASE type = "onclick" -> "click"
    [] type = "oninput" -> "input"
    [] type = "onchange" -> "change"
    [] OTHER -> type

\* Number(args[0]) || 200
DelayOf(args) ==
  IF args = <<>> THEN DefaultDelay
  ELSE IF args[1] = 0 THEN DefaultDelay ELSE args[1]

\* args[0] || null
SelectorOf(args) == IF args = <<>> THEN NoSelector ELSE args[1]

\* the elements of S in document order
RECURSIVE SortedSeq(_)
SortedSeq(S) ==
  IF S = {} THEN <<>>
  ELSE LET m == CHOOSE x \in S : \A y \in S : x <= y
       IN <<m>> \o SortedSeq(S \ {m})

\* mountRoot.querySelectorAll(selector)
QuerySelectorAll(children, selector) ==
  IF selector = ".btn" THEN SortedSeq(children) ELSE <<>>

\* this[name]: the own wrapper when the instance has one, else the prototype's method
MethodOf(acc, name) == IF name \in DOMAIN acc.own THEN "wrapped" ELSE "orig"

\* el.addEventListener(type, wrappedHandler); __sfc_listeners.push({el, type, handler})
\* h tells which function the handler calls: the original or the timing wrapper
AddListener(acc, el, name, type, h) ==
  LET rec == [el |-> el, name |-> name, type |-> type, h |-> h]
  IN [acc EXCEPT !.attached = Append(@, rec), !.listeners = Append(@, rec)]

RECURSIVE AddListeners(_, _, _, _, _)
AddListeners(acc, els, name, type, h) ==
  IF els = <<>> THEN acc
  ELSE AddListeners(AddListener(acc, Head(els), name, type, h), Tail(els), name, type, h)

\* an exception leaves the statement: acc.threw until a catch clause takes it
Throw(acc) == [acc EXCEPT !.threw = TRUE]

\* the catch clause around the wiring of one method (discovery) or of one wire
\* (cached plan): the exception ends there
Uncaught(acc) == acc
Caught(acc) == [acc EXCEPT !.threw = FALSE]

\* an event binding: the elements matching the selector, else the component root
WireEvent(acc, children, name, type, selector, h) ==
  IF selector = BadSelector THEN Throw(acc)
  ELSE IF selector # NoSelector
  THEN AddListeners(acc, QuerySelectorAll(children, selector), name, type, h)
  ELSE AddListener(acc, RootEl, name, type, h)

\* Object.defineProperty(this, name, { value: wrapped }): the property it defines
\* is not configurable, so defining it again throws
\* a property that could be defined over and over
CanRedefine(acc, name) == TRUE
CanDefine(acc, name) == name \notin DOMAIN acc.own

\* original = fn.bind(this) with fn = this[name]: a wrapper defined over a wrapper
\* would call it as its original; layers counts the wrappers between a call
\* and the prototype's method, delay is the delay of the outermost
DefineWrapped(acc, name, type, delay) ==
  [acc EXCEPT !.own = MapSet(@, name,
      [type |-> type, delay |-> delay,
       layers |-> IF name \in DOMAIN acc.own THEN acc.own[name].layers + 1 ELSE 1])]

EventWire(name, type, selector) ==
  [methodName |-> name, eventType |-> type, selector |-> selector,
   transformType |-> NoType, delay |-> 0]
TimingWire(name, type, delay) ==
  [methodName |-> name, eventType |-> NoType, selector |-> NoSelector,
   transformType |-> type, delay |-> delay]

\* the wiring from the cached plan: each wire in its own try/catch
RECURSIVE WireCached(_, _, _)
WireCached(acc, children, plan) ==
  IF plan = <<>> \/ acc.threw THEN acc
  ELSE LET wire == Head(plan)
           next ==
             IF wire.eventType # NoType
             THEN WireEvent(acc, children, wire.methodName, wire.eventType,
                            wire.selector, MethodOf(acc, wire.methodName))
             ELSE IF wire.transformType # NoType
             THEN IF CanDefine(acc, wire.methodName)
                  THEN DefineWrapped(acc, wire.methodName, wire.transformType, wire.delay)
                  ELSE Throw(acc)
             ELSE acc
       IN WireCached(Caught(next), children, Tail(plan))

\* discovery, the decorators of one method: fn was read before the loop; a throw
\* leaves the rest of the method's decorators out (the try/catch is per method)
RECURSIVE DiscoverDecs(_, _, _, _, _)
DiscoverDecs(acc, children, key, fn, decs) ==
  IF decs = <<>> THEN acc
  ELSE LET meta == Head(decs)
           type == StripOn(meta.type)
       IN IF type \in EventTypes
          THEN LET selector == SelectorOf(meta.args)
                   pushed == [acc EXCEPT !.plan = Append(@, EventWire(key, type, selector))]
                   wired == WireEvent(pushed, children, key, type, selector, fn)
               IN IF wired.threw THEN wired
                  ELSE DiscoverDecs(wired, children, key, fn, Tail(decs))
          ELSE IF type \in TimingTypes
          THEN LET delay == DelayOf(meta.args)
                   pushed == [acc EXCEPT !.plan = Append(@, TimingWire(key, type, delay))]
               IN IF CanDefine(pushed, key)
                  THEN DiscoverDecs(DefineWrapped(pushed, key, type, delay),
                                    children, key, fn, Tail(decs))
                  ELSE Throw(pushed)
          ELSE DiscoverDecs(acc, children, key, fn, Tail(decs))

\* discovery: the walk over the prototype chain
RECURSIVE Discover(_, _, _)
Discover(acc, children, methods) ==
  IF methods = <<>> \/ acc.threw THEN acc
  ELSE LET m == Head(methods)
       IN Discover(Caught(DiscoverDecs(acc, children, m.name, MethodOf(acc, m.name), m.decs)),
                   children, Tail(methods))

NoPlan == [set |-> FALSE, plan |-> <<>>]

\* if (cachedWiring): an array is truthy, also when empty
HasPlan(w) == w.set

NoInst ==
  [st |-> "none", ctor |-> 0, expect |-> 0, listeners |-> <<>>, own |-> EmptyMap,
   params |-> "unset", seen |-> "never", children |-> {}, nextNode |-> 1,
   updated |-> FALSE, everDisc |-> FALSE]

\* the part of connectedCallback that runs synchronously: the authored
\* connectedCallback (super), then the template fragment appended to the mount root
SyncConnected(me) ==
  [me EXCEPT !.seen = me.params,
             !.children = IF HasTemplate THEN @ \cup {me.nextNode} ELSE @,
             !.nextNode = IF HasTemplate THEN @ + 1 ELSE @]

\* defineComponent(ctor): the module is evaluated and hands its class over;
\* customElements.define only when the tag is not defined yet
DefineComponent ==
  /\ latest < MaxCtor
  /\ latest' = latest + 1
  /\ registry' = IF registry = 0 THEN latest + 1 ELSE registry
  /\ UNCHANGED <<wiringCache, discoveries, inst, attached, microtasks>>
  /\ UNCHANGED wireFrame

\* document.createElement(tag): an instance of the class defined for the tag
Create(i) ==
  /\ registry # 0
  /\ inst[i].st = "none"
  /\ inst' = [inst EXCEPT ![i] = [NoInst EXCEPT !.st = "created", !.ctor = registry,
                                                !.expect = latest]]
  /\ UNCHANGED <<registry, latest, wiringCache, discoveries, attached, microtasks>>
  /\ UNCHANGED wireFrame

\* the element is inserted: Wrapped.connectedCallback up to Promise.resolve().then
Connect(i) ==
  /\ inst[i].st = "created"
  /\ inst[i].nextNode <= MaxNodes
  /\ Len(microtasks) < MaxQueue
  /\ inst' = [inst EXCEPT ![i] = [SyncConnected(@) EXCEPT !.st = "connected"]]
  /\ microtasks' = Append(microtasks, i)
  /\ UNCHANGED <<registry, latest, wiringCache, discoveries, attached>>
  /\ UNCHANGED wireFrame

\* it.el.removeEventListener(it.type, it.handler) for every recorded listener
RECURSIVE RemoveAll(_, _)
RemoveAll(att, list) ==
  IF list = <<>> THEN att ELSE RemoveAll(SpliceOut(att, Head(list)), Tail(list))

\* the element is removed: Wrapped.disconnectedCallback
Disconnect(i) ==
  /\ inst[i].st = "connected"
  /\ attached' = [attached EXCEPT ![i] = RemoveAll(@, inst[i].listeners)]
  /\ inst' = [inst EXCEPT ![i].st = "created", ![i].listeners = <<>>,
                          ![i].everDisc = TRUE]
  /\ UNCHANGED <<registry, latest, wiringCache, discoveries, microtasks>>
  /\ UNCHANGED wireFrame

\* the microtask scheduled by connectedCallback: wiring, then the parameters;
\* an exception that reaches the outer try/catch ends the callback where it is
RunMicrotask ==
  /\ microtasks # <<>>
  /\ LET i == Head(microtasks)
         me == inst[i]
         cached == wiringCache[me.ctor]
         acc0 == [listeners |-> me.listeners, attached |-> attached[i],
                  own |-> me.own, plan |-> <<>>, threw |-> FALSE]
         acc == IF HasPlan(cached)
                THEN WireCached(acc0, me.children, cached.plan)
                ELSE Discover(acc0, me.children, ClassMethods(me.ctor))
     IN /\ inst' = [inst EXCEPT ![i].listeners = acc.listeners,
                                ![i].own = acc.own,
                                ![i].params = IF HasRoute /\ ~acc.threw THEN "set" ELSE @]
        /\ attached' = [attached EXCEPT ![i] = acc.attached]
        /\ wiringCache' = IF HasPlan(cached) \/ acc.threw THEN wiringCache
                          ELSE [wiringCache EXCEPT ![me.ctor] = [set |-> TRUE, plan |-> acc.plan]]
        /\ discoveries' = IF HasPlan(cached) THEN discoveries
                          ELSE [discoveries EXCEPT ![me.ctor] = @ + 1]
  /\ microtasks' = Tail(microtasks)
  /\ UNCHANGED <<registry, latest>>
  /\ UNCHANGED wireFrame

\* __sfc_applyUpdate on one matching element: mountRoot.innerHTML = payload.template
\* when a template is given (it holds one ".btn" element), then connectedCallback()
UpdateOne(me, withTemplate) ==
  LET replaced == IF withTemplate
                  THEN [me EXCEPT !.children = {me.nextNode}, !.nextNode = @ + 1]
                  ELSE me
  IN [SyncConnected(replaced) EXCEPT !.updated = TRUE]

\* defineComponent.__sfc_applyUpdate(sourceId, payload): every element of the
\* document whose constructor carries sourceId (all instances of the class here)
ApplyUpdate(withTemplate) ==
  LET live == {i \in InstIds : inst[i].st = "connected"}
  IN /\ live # {}
     /\ \A i \in live : inst[i].nextNode + 1 <= MaxNodes
     /\ Len(microtasks) + Cardinality(live) <= MaxQueue
     /\ inst' = [i \in InstIds |-> IF i \in live THEN UpdateOne(inst[i], withTemplate)
                                   ELSE inst[i]]
     /\ microtasks' = microtasks \o SortedSeq(live)
     /\ UNCHANGED <<registry, latest, wiringCache, discoveries, attached>>
     /\ UNCHANGED wireFrame

InitWire ==
  /\ registry = 0
  /\ latest = 0
  /\ wiringCache = [c \in 1..MaxCtor |-> NoPlan]
  /\ discoveries = [c \in 1..MaxCtor |-> 0]
  /\ inst = [i \in InstIds |-> NoInst]
  /\ attached = [i \in InstIds |-> <<>>]
  /\ microtasks = <<>>

----------------------------------------------------------------------------
\* Events and timers of the wired instances

MaxTime == 5                  \* the clock runs up to here
MaxEvents == 2                \* events dispatched on one component root
MethodNames == {"onBtn", "onType", "onChange"}
NoTimer == 0                  \* no setTimeout pending
NeverRan == -1                \* throttle: let last = 0, long before the clock starts

Wired(i) == inst[i].st = "connected" /\ ~(\E k \in DOMAIN microtasks : microtasks[k] = i)

\* the debounce wrapper: if (t) clearTimeout(t); t = setTimeout(original, delay)
DebounceDue(at, delay) == at + delay

\* a throttle test that lets a call through when exactly delay has passed
ThrottlePassAtDelay(last, at, delay) == last = NeverRan \/ at - last >= delay

\* the throttle wrapper: if (now - last > delay) { last = now; original() }
ThrottlePass(last, at, delay) == last = NeverRan \/ at - last > delay

\* one handler of a dispatched event runs: it calls the original method, or the
\* timing wrapper that was this[name] when the listener was wired
RunHandler(st, me, rec, at) ==
  IF rec.h = "orig"
  THEN [st EXCEPT !.calls = Append(@, [name |-> rec.name, at |-> at])]
  ELSE LET w == me.own[rec.name]
       IN IF w.type = "debounce"
          THEN [st EXCEPT !.timers[rec.name].due = DebounceDue(at, w.delay)]
          ELSE IF ThrottlePass(st.timers[rec.name].last, at, w.delay)
               THEN [st EXCEPT !.timers[rec.name].last = at,
                               !.calls = Append(@, [name |-> rec.name, at |-> at])]
               ELSE st

\* the listeners of el for the event type, in the order they were attached
RECURSIVE RunHandlers(_, _, _, _, _, _)
RunHandlers(st, me, list, el, type, at) ==
  IF list = <<>> THEN st
  ELSE LET rec == Head(list)
           next == IF rec.el = el /\ rec.type = type THEN RunHandler(st, me, rec, at) ELSE st
       IN RunHandlers(next, me, Tail(list), el, type, at)

TimerDue == \E i \in InstIds, name \in MethodNames : timers[i][name].due = now

\* an event of the type is dispatched on the component root of a wired instance
Dispatch(i, type) ==
  /\ Wired(i)
  /\ Len(events[i]) < MaxEvents
  /\ ~TimerDue
  /\ LET st == RunHandlers([timers |-> timers[i], calls |-> calls[i]], inst[i],
                           attached[i], RootEl, type, now)
     IN /\ timers' = [timers EXCEPT ![i] = st.timers]
        /\ calls' = [calls EXCEPT ![i] = st.calls]
  /\ events' = [events EXCEPT ![i] = Append(@, [type |-> type, at |-> now])]
  /\ UNCHANGED <<now, wireVars>>
  /\ UNCHANGED timeFrame

\* a setTimeout of a debounce wrapper expires: the original method runs
FireTimer(i, name) ==
  /\ timers[i][name].due = now
  /\ timers' = [timers EXCEPT ![i][name].due = NoTimer]
  /\ calls' = [calls EXCEPT ![i] = Append(@, [name |-> name, at |-> now])]
  /\ UNCHANGED <<now, events, wireVars>>
  /\ UNCHANGED timeFrame

\* a millisecond passes (the clock is started by the first event)
Tick ==
  /\ now < MaxTime
  /\ \E i \in InstIds : events[i] # <<>>
  /\ ~TimerDue
  /\ now' = now + 1
  /\ UNCHANGED <<timers, calls, events, wireVars>>
  /\ UNCHANGED timeFrame

InitTime ==
  /\ now = 1
  /\ timers = [i \in InstIds |-> [name \in MethodNames |-> [due |-> NoTimer, last |-> NeverRan]]]
  /\ calls = [i \in InstIds |-> <<>>]
  /\ events = [i \in InstIds |-> <<>>]

----------------------------------------------------------------------------
\* The dev server: handleRequest and transformSfcFile for one .sfc file

Requests == {1, 2}            \* requests in flight
MaxWrites == 2                \* times the file is written
MAX_CACHE_SIZE == 104857600   \* 100 * 1024 * 1024
SfcPath == "/components/x.sfc"

\* transformSFC and the import rewriting: the module generated from a text
Transform(text) == [js |-> text]
\* transformed.length
SizeOf(code) == 10 + code.js

\* Map.get / Map.set on a Map kept as the sequence of its [key, value] pairs
RECURSIVE SeqGet(_, _)
SeqGet(m, key) ==
  IF m = <<>> THEN Null
  ELSE IF Head(m).key = key THEN Head(m).value ELSE SeqGet(Tail(m), key)

SeqHas(m, key) == \E k \in DOMAIN m : m[k].key = key

SeqSet(m, key, value) ==
  IF SeqHas(m, key)
  THEN [k \in DOMAIN m |-> IF m[k].key = key THEN [key |-> key, value |-> value] ELSE m[k]]
  ELSE Append(m, [key |-> key, value |-> value])

\* addToCache: evict from the front while the size would exceed the ceiling,
\* then cache.set(key, {...value, size}) and currentCacheSize += size
RECURSIVE AddToCache(_, _, _, _, _)
AddToCache(m, total, key, value, size) ==
  IF total + size > MAX_CACHE_SIZE /\ Len(m) > 0
  THEN AddToCache(Tail(m), total - Head(m).value.size, key, value, size)
  ELSE [cache |-> SeqSet(m, key, [code |-> value.code, mtime |-> value.mtime, size |-> size]),
        total |-> total + size]

IdleReq == [pc |-> "idle", content |-> 0, stat |-> 0, code |-> Null, hit |-> FALSE, textAtHit |-> 0]

\* handleRequest: let content = fs.readFileSync(filePath)
ReadFile(r) ==
  /\ req[r].pc = "idle"
  /\ req' = [req EXCEPT ![r] = [IdleReq EXCEPT !.pc = "read", !.content = srvFile.text]]
  /\ UNCHANGED <<srvFile, transformedCache, currentCacheSize>>
  /\ UNCHANGED srvFrame

\* transformSfcFile up to the await: statSync, the cache lookup, the mtime check
StatAndLookup(r) ==
  /\ req[r].pc = "read"
  /\ LET cached == SeqGet(transformedCache, SfcPath)
     IN IF cached # Null /\ cached.mtime = srvFile.mtime
        THEN req' = [req EXCEPT ![r].pc = "done", ![r].stat = srvFile.mtime,
                                ![r].code = cached.code, ![r].hit = TRUE,
                                ![r].textAtHit = srvFile.text]
        ELSE req' = [req EXCEPT ![r].pc = "compiling", ![r].stat = srvFile.mtime]
  /\ UNCHANGED <<srvFile, transformedCache, currentCacheSize>>
  /\ UNCHANGED srvFrame

\* transformSfcFile after the await: the result is stored under the mtime read
\* before the compile, and served
FinishCompile(r) ==
  /\ req[r].pc = "compiling"
  /\ LET transformed == Transform(req[r].content)
         added == AddToCache(transformedCache, currentCacheSize, SfcPath,
                             [code |-> transformed, mtime |-> req[r].stat],
                             SizeOf(transformed))
     IN /\ transformedCache' = added.cache
        /\ currentCacheSize' = added.total
        /\ req' = [req EXCEPT ![r].pc = "done", ![r].code = transformed]
  /\ UNCHANGED srvFile
  /\ UNCHANGED srvFrame

\* the response is sent; the next request of this client can start
Respond(r) ==
  /\ req[r].pc = "done"
  /\ req' = [req EXCEPT ![r] = IdleReq]
  /\ UNCHANGED <<srvFile, transformedCache, currentCacheSize>>
  /\ UNCHANGED srvFrame

\* the environment: an editor saves the file (a new text and a later mtime)
WriteFile ==
  /\ srvFile.text <= MaxWrites
  /\ srvFile' = [mtime |-> srvFile.mtime + 1, text |-> srvFile.text + 1]
  /\ UNCHANGED <<transformedCache, currentCacheSize, req>>
  /\ UNCHANGED srvFrame

InitSrv ==
  /\ srvFile = [mtime |-> 100, text |-> 1]
  /\ transformedCache = <<>>
  /\ currentCacheSize = 0
  /\ req = [r \in Requests |-> IdleReq]

----------------------------------------------------------------------------
\* defineComponent(opts): the options shape and its SFCElement class

OptInstIds == {1, 2}          \* instances of SFCElement
MaxOptNodes == 2              \* elements mounted under one mount root

\* tags are strings, kept as the sequence of their characters
NoTag == <<>>                                   \* opts.tag undefined (or '')
SfcComponent == <<"s", "f", "c", "-", "c">>     \* 'sfc-component'
SfcUnknown == <<"s", "f", "c", "-", "u">>       \* 'sfc-unknown'
OptTags == {NoTag, <<"c", "a", "r", "d">>, <<"x", "-", "a">>}

\* the options object under test: its method greet carries the metadata of a
\* click annotation with the selector ".btn"; the template holds one ".btn"
OptsMethods ==
  << [name |-> "greet", decs |-> << [type |-> "click", args |-> <<".btn">>] >>] >>

\* opts.tag || (opts.template ? 'sfc-component' : 'sfc-unknown')
TagOf(tag, template) ==
  IF tag # NoTag THEN tag ELSE IF template THEN SfcComponent ELSE SfcUnknown

\* customElements.define(name, ...) throws a SyntaxError unless the name is a
\* valid custom element name: it starts with a letter and contains a hyphen
IsValidName(tag) ==
  /\ tag # <<>>
  /\ tag[1] # "-"
  /\ \E k \in DOMAIN tag : tag[k] = "-"

\* customElements.get(tag)
OptGet(els, tag) == \E e \in els : e.tag = tag

\* the generated modules that call defineComponent(opts), one per unit; each
\* hands over its own __template and __attach
ModuleIds == {1, 2}
NoModule == 0

NoOptCall == [called |-> FALSE, src |-> NoModule, tag |-> NoTag, template |-> FALSE,
              outcome |-> "none", defined |-> NoTag]

\* defineComponent(opts) for an options object: the define is guarded by
\* try/catch, and SFCElement is returned whatever happened
\* if (!customElements.get(tag)) customElements.define(tag, SFCElement)
Defines(els, name) == ~OptGet(els, name) /\ IsValidName(name)

\* the SFCElement class closes over the opts of the call: the element defined
\* for a tag mounts the template of the module src that defined it
DefineOptions(src, tag, template) ==
  LET name == TagOf(tag, template)
      defines == Defines(optElements, name)
  IN /\ optElements' = IF defines
                       THEN {e \in optElements : e.tag # name}
                              \cup {[tag |-> name, template |-> template, src |-> src]}
                       ELSE optElements
     /\ optLast' = [called |-> TRUE, src |-> src, tag |-> tag, template |-> template,
                    outcome |-> "returned",
                    defined |-> IF defines THEN name ELSE NoTag]
     /\ UNCHANGED optInst
     /\ UNCHANGED optFrame

NoOptInst == [st |-> "none", tag |-> NoTag, src |-> NoModule, template |-> FALSE, children |-> 0,
              listeners |-> <<>>, cbCalls |-> 0]

\* document.createElement(tag) for a tag defined through the options path
OptCreate(i) ==
  /\ optInst[i].st = "none"
  /\ \E e \in optElements :
       optInst' = [optInst EXCEPT ![i] = [NoOptInst EXCEPT !.st = "created",
                                             !.tag = e.tag, !.src = e.src,
                                             !.template = e.template]]
  /\ UNCHANGED <<optElements, optLast>>
  /\ UNCHANGED optFrame

\* SFCElement.connectedCallback: template appended, parameters, interpolation,
\* the authored connectedCallback (called at two places); no listener is added
\* connectedCallback calls the authored opts.connectedCallback after the
\* interpolation (inside a try) and once more as its last statement; neither
\* call depends on attributeChangedCallback or observedAttributes
AuthoredCalls ==
  LET afterInterpolate == 1
      lastStatement == 1
  IN afterInterpolate + lastStatement

OptConnect(i) ==
  /\ optInst[i].st = "created"
  /\ optInst[i].children < MaxOptNodes
  /\ optInst' = [optInst EXCEPT ![i].st = "connected",
                                ![i].children = IF optInst[i].template THEN @ + 1 ELSE @,
                                ![i].cbCalls = AuthoredCalls]
  /\ UNCHANGED <<optElements, optLast>>
  /\ UNCHANGED optFrame

\* SFCElement.disconnectedCallback: the recorded listeners are removed
OptDisconnect(i) ==
  /\ optInst[i].st = "connected"
  /\ optInst' = [optInst EXCEPT ![i].st = "created", ![i].listeners = <<>>,
                                ![i].cbCalls = 0]
  /\ UNCHANGED <<optElements, optLast>>
  /\ UNCHANGED optFrame

InitOpt ==
  /\ optElements = {}
  /\ optLast = NoOptCall
  /\ optInst = [i \in OptInstIds |-> NoOptInst]

----------------------------------------------------------------------------
\* The annotation extractor: astPreprocessDecorators, simplePreprocess and
\* their caller.  A script is kept as its syntax: the shape of its default
\* export, whether the rest of it is valid syntax, and its methods, each with
\* the annotations written in front of it.  rx tells whether the regular
\* expression methodRe matches at the annotation.

Shapes == {"object",      \* export default { ... }
           "namedClass",  \* export default class Name { ... }
           "anonClass",   \* export default class { ... }
           "constClass"}  \* const __SFC_CLS__ = class { ... }; export default __SFC_CLS__
AnnTypes == {"click", "debounce"}
MaxMethods == 2               \* methods of a script
MaxAnns == 2                  \* annotations in front of one method

Anns == [type : AnnTypes, rx : BOOLEAN]
Scripts == [shape : Shapes, valid : BOOLEAN,
            methods : SeqsUpTo([name : {"m"}, anns : SeqsUpTo(Anns, MaxAnns)], MaxMethods)]
NoScript == [shape |-> "none", valid |-> FALSE, methods |-> <<>>]

\* the annotations left in the text of a script
Annotations(src) ==
  UNION {{<<k, j>> : j \in DOMAIN src.methods[k].anns} : k \in DOMAIN src.methods}

\* metadata: [method, type] of the given annotations, in source order
RECURSIVE MetaOf(_, _, _)
MetaOf(src, k, keep) ==
  IF k > Len(src.methods) THEN <<>>
  ELSE LET anns == src.methods[k].anns
           pick == SelectSeq(anns, LAMBDA a : keep[a.rx])
       IN [j \in DOMAIN pick |-> [method |-> k, type |-> pick[j].type]]
          \o MetaOf(src, k + 1, keep)

OnlyRx == [b \in BOOLEAN |-> b]
AllAnns == [b \in BOOLEAN |-> TRUE]

\* the text with every annotation taken out
Stripped(src) == [src EXCEPT !.methods = [k \in DOMAIN @ |-> [@[k] EXCEPT !.anns = <<>>]]]

Failed == [ok |-> FALSE, script |-> NoScript, meta |-> <<>>]
Done(script, meta) == [ok |-> TRUE, script |-> script, meta |-> meta]

\* the regex pass for `export default class`: the class is bound to __SFC_CLS__
\* and one assignment is appended per match; the text of the class is kept
QuickRegexPass(src) ==
  IF src.shape \in {"namedClass", "anonClass"} /\ MetaOf(src, 1, OnlyRx) # <<>>
  THEN Done([src EXCEPT !.shape = "constClass"], MetaOf(src, 1, OnlyRx))
  ELSE Failed

\* parser.parse(src, { plugins: [..., decorators] }): decorators are syntax of
\* class members only
ParsesWithDecorators(src) ==
  src.valid /\ (src.shape # "object" \/ Annotations(src) = {})

\* the tree pass: a class declaration that has a name loses the decorators of
\* its methods and gets the assignments; an `export default class` without a
\* name is a declaration without id (return); a class expression is handled
\* only as the operand of export default, and its decorators are kept
TreePass(src) ==
  IF ~ParsesWithDecorators(src) THEN Failed
  ELSE IF src.shape = "namedClass" THEN Done(Stripped(src), MetaOf(src, 1, AllAnns))
  ELSE Done(src, <<>>)

\* the marker-comment pass: every annotation was replaced by a comment; the
\* annotated methods of an exported object literal become functions carrying
\* __sfc_decorators.  parser.parse(replaced) throws for invalid syntax
MarkerPass(src) ==
  IF ~src.valid THEN Failed
  ELSE IF src.shape = "object" THEN Done(Stripped(src), MetaOf(src, 1, AllAnns))
  ELSE Done(Stripped(src), <<>>)

\* simplePreprocess: src.replace(/@name(args)?\s*/g, '')
StripPass(src) == Done(Stripped(src), <<>>)

\* astPreprocessDecorators under the try/catch of its caller
Extract(src) ==
  LET q == QuickRegexPass(src)
      tr == TreePass(src)
      mk == MarkerPass(src)
      st == StripPass(src)
      out(by, r, failed) == [by |-> by, script |-> r.script, meta |-> r.meta,
                             failed |-> failed]
  IN IF q.ok THEN out("quick", q, {})
     ELSE IF tr.ok THEN out("tree", tr, {"quick"})
     ELSE IF mk.ok THEN out("marker", mk, {"quick", "tree"})
     ELSE out("strip", st, {"quick", "tree", "marker"})

NoOut == [by |-> "none", script |-> NoScript, meta |-> <<>>, failed |-> {}, again |-> FALSE]

\* load(): the script of a unit is preprocessed
ExtractScript(src) ==
  /\ exOut.by = "none"
  /\ exIn' = src
  /\ exOut' = [by |-> Extract(src).by, script |-> Extract(src).script,
               meta |-> Extract(src).meta, failed |-> Extract(src).failed,
               again |-> FALSE]
  /\ UNCHANGED exFrame

\* the extractor runs on the script it returned
ExtractAgain ==
  /\ exOut.by # "none" /\ ~exOut.again
  /\ exIn' = exOut.script
  /\ exOut' = [by |-> Extract(exOut.script).by, script |-> Extract(exOut.script).script,
               meta |-> Extract(exOut.script).meta, failed |-> Extract(exOut.script).failed,
               again |-> TRUE]
  /\ UNCHANGED exFrame

InitEx ==
  /\ exIn = NoScript
  /\ exOut = NoOut

----------------------------------------------------------------------------
\* TransformCache with a persistPath: the constructor reloads the snapshot

MaxSnapshot == 3              \* elements of data.entries

BadElement == [key |-> "none", value |-> Null]   \* an element that is not iterable
SnapshotElements ==
  {[key |-> id, value |-> [code |-> "c1", mtime |-> m]] : id \in Ids, m \in Mtimes}
    \cup {BadElement}

\* what is at persistPath: no file, a file that cannot be read, text that is
\* no JSON, JSON without an entries array, or JSON with one
Snapshots ==
  {[kind |-> k, entries |-> <<>>] : k \in {"missing", "unreadable", "unparsable", "noEntries"}}
    \cup {[kind |-> "entries", entries |-> e] : e \in SeqsUpTo(SnapshotElements, MaxSnapshot)}

\* for (const [key, value] of data.entries) { cache.set(key, value); accessOrder.push(key) }
\* destructuring an element that is not iterable throws
RECURSIVE LoadEntries(_, _, _)
LoadEntries(c, order, entries) ==
  IF entries = <<>> THEN [cache |-> c, order |-> order, threw |-> FALSE]
  ELSE IF Head(entries) = BadElement THEN [cache |-> c, order |-> order, threw |-> TRUE]
  ELSE LoadEntries(MapSet(c, Head(entries).key, Head(entries).value),
                   Append(order, Head(entries).key), Tail(entries))

RECURSIVE Touches(_, _)
Touches(r, order) ==
  IF order = <<>> THEN r ELSE Touches(TouchRecency(r, Head(order)), Tail(order))

NoSnapshot == [loaded |-> FALSE, kind |-> "none", entries |-> <<>>, failed |-> FALSE]

\* new TransformCache({ persistPath }): loadFromDisk inside its try/catch
LoadFromDisk(snap) ==
  /\ ~snapshot.loaded
  /\ LET threwEarly == snap.kind \in {"unreadable", "unparsable"}
         ld == IF snap.kind = "entries"
               THEN LoadEntries(cache, accessOrder, snap.entries)
               ELSE [cache |-> cache, order |-> accessOrder, threw |-> threwEarly]
     IN /\ cache' = ld.cache
        /\ accessOrder' = ld.order
        /\ recency' = Touches(recency, ld.order)
        /\ stored' = [id \in DOMAIN ld.cache |-> ld.cache[id].code]
        /\ snapshot' = [loaded |-> TRUE, kind |-> snap.kind, entries |-> snap.entries,
                        failed |-> ld.threw \/ snap.kind # "entries"]
  /\ ret' = NoRet
  /\ UNCHANGED <<dirty, fileMtime>>
  /\ UNCHANGED loadFrame

\* the process exits; the next one constructs its cache anew
Restart ==
  /\ snapshot.loaded
  /\ snapshot' = NoSnapshot
  /\ cache' = EmptyMap
  /\ accessOrder' = <<>>
  /\ recency' = <<>>
  /\ stored' = EmptyMap
  /\ ret' = NoRet
  /\ UNCHANGED <<dirty, fileMtime>>
  /\ UNCHANGED loadFrame

InitLoad == snapshot = NoSnapshot

----------------------------------------------------------------------------
\* The route block of transformSFC (index.ts): paramNames of attrs.path.
\* A path is a string, modelled as the sequence of its characters.

MaxPath == 5                  \* characters of a route path
PathChars == {"/", ":", "a", "1"}
Paths == SeqsUpTo(PathChars, MaxPath)

\* PARAM_RE = /:([a-zA-Z_][a-zA-Z0-9_]*)/g
IsNameStart(ch) == ch \in {"a"}
IsNamePart(ch) == ch \in {"a", "1"}

\* a quantifier that takes one character and stops
MatchEndLazy(p, j) == j

\* [a-zA-Z0-9_]* from position j: greedy; the position after the match
RECURSIVE MatchEnd(_, _)
MatchEnd(p, j) ==
  IF j <= Len(p) /\ IsNamePart(p[j]) THEN MatchEnd(p, j + 1) ELSE j

\* routePath.match(PARAM_RE): every match, scanning on from the end of the last
RECURSIVE MatchAll(_, _, _)
MatchAll(p, i, acc) ==
  IF i >= Len(p) THEN acc
  ELSE IF p[i] = ":" /\ IsNameStart(p[i + 1])
       THEN LET e == MatchEnd(p, i + 2)
            IN  MatchAll(p, e, Append(acc, SubSeq(p, i, e - 1)))
       ELSE MatchAll(p, i + 1, acc)

\* if (routePath) { matches = routePath.match(PARAM_RE);
\*                  if (matches) paramNames.push(...matches.map(m => m.slice(1))) }
ParamNames(p) ==
  IF p = <<>> THEN <<>>
  ELSE LET matches == MatchAll(p, 1, <<>>)
       IN  [k \in DOMAIN matches |-> Tail(matches[k])]

NoPath == <<>>

\* one call of transformSFC: route and paramNames are locals of the call
DeriveParams(p) ==
  /\ routePath = NoPath
  /\ routePath' = p
  /\ paramNames' = ParamNames(p)
  /\ UNCHANGED routeFrame

\* the call returns
RouteReturn ==
  /\ routePath # NoPath
  /\ routePath' = NoPath
  /\ paramNames' = <<>>
  /\ UNCHANGED routeFrame

InitRoute ==
  /\ routePath = NoPath
  /\ paramNames = <<>>

----------------------------------------------------------------------------
\* The style partition of transformSFC (index.ts).  The opening tag of a
\* region is the set of its attributes; an attribute is its name and its
\* value, each a sequence of words (maximal runs of word characters), so
\* that `title="global reset"` has the name <<"title">> and the value
\* <<"global", "reset">>.  CSS text is a sequence of lines.

MaxRegions == 2               \* style regions of a unit

AttrGlobal == [name |-> <<"global">>, value |-> <<>>]
AttrLang == [name |-> <<"lang">>, value |-> <<"scss">>]
AttrTitle == [name |-> <<"title">>, value |-> <<"global", "reset">>]
StyleAttrs == {AttrGlobal, AttrLang, AttrTitle}

Line(s) == [src |-> s, expanded |-> FALSE]
StyleContents == {<<>>, <<Line("a")>>, <<Line("b")>>}
Regions == [attrs : SUBSET StyleAttrs, content : StyleContents]
Units == [regions : SeqsUpTo(Regions, MaxRegions), sass : BOOLEAN]

\* the words of the attribute string m[1]
WordsOf(attrs) == UNION {Range(a.name) \cup Range(a.value) : a \in attrs}

\* GLOBAL_ATTR_RE.test(attrs), /\bglobal(?:\s*=\s*(?:"true"|'true'|true))?\b/i:
\* the group is optional, so the pattern matches wherever the word stands
GlobalAttrTest(attrs) == "global" \in WordsOf(attrs)

\* attrs.match(LANG_RE) and lang.toLowerCase() === 'scss'
IsScss(attrs) == AttrLang \in attrs

\* sassModule.compile(content, { style: 'expanded' }).css
SassCompile(content) ==
  [k \in DOMAIN content |-> [content[k] EXCEPT !.expanded = TRUE]]

\* the compiler throws: the sass package is not installed (import('sass')
\* rejects), or the content is not valid SCSS; the line "b" stands for such
\* content
SassThrows(content, sass) == ~sass \/ Line("b") \in Range(content)

\* let compiled = content; try { ...; compiled = out.css }
TrySass(content, sass) ==
  IF SassThrows(content, sass)
  THEN [css |-> content, threw |-> TRUE, warned |-> FALSE]
  ELSE [css |-> SassCompile(content), threw |-> FALSE, warned |-> FALSE]

\* a catch block that throws the error on
RethrowSass(content) == [css |-> content, threw |-> TRUE, warned |-> FALSE]

\* catch (e) { compiled = content; ms.append(`// [sfc] warning: ...`) }
CatchSass(content) == [css |-> content, threw |-> FALSE, warned |-> TRUE]

\* compiled: the SCSS output, or the raw content after a failure
Compiled(r, sass) ==
  IF IsScss(r.attrs)
  THEN LET t == TrySass(r.content, sass)
       IN  IF t.threw THEN CatchSass(r.content) ELSE t
  ELSE [css |-> r.content, threw |-> FALSE, warned |-> FALSE]

\* the while loop over the matches of STYLE_GLOBAL_RE
RECURSIVE PartitionStyles(_, _, _)
PartitionStyles(regions, sass, acc) ==
  IF regions = <<>> THEN acc
  ELSE LET r == Head(regions)
       IN  IF r.content = <<>>
           THEN PartitionStyles(Tail(regions), sass, acc)
           ELSE LET c == Compiled(r, sass)
                    warned == [acc EXCEPT !.warnings = @ + (IF c.warned THEN 1 ELSE 0)]
                IN  IF c.threw
                    THEN [acc EXCEPT !.failed = TRUE]
                    ELSE IF GlobalAttrTest(r.attrs)
                    THEN PartitionStyles(Tail(regions), sass,
                           [warned EXCEPT !.globalParts = Append(@, c.css)])
                    ELSE PartitionStyles(Tail(regions), sass,
                           [warned EXCEPT !.localParts = Append(@, c.css)])

\* parts.join('\n')
RECURSIVE Join(_)
Join(parts) == IF parts = <<>> THEN <<>> ELSE Head(parts) \o Join(Tail(parts))

\* parts.length ? parts.join('\n') : null
CssOrNull(parts) ==
  IF Len(parts) > 0 THEN [null |-> FALSE, lines |-> Join(parts)] ELSE Null

NoUnit == [regions |-> <<>>, sass |-> FALSE]
\* done: transformSFC returned; failed: it threw; warnings: the diagnostic
\* comments appended to the generated module
NoCss == [done |-> FALSE, failed |-> FALSE, warnings |-> 0,
          localCss |-> Null, globalCss |-> Null]

\* one call of transformSFC: localParts and globalParts are locals of the call
TransformStyles(u) ==
  /\ ~styleOut.done /\ ~styleOut.failed
  /\ styleIn' = u
  /\ LET acc == PartitionStyles(u.regions, u.sass,
                                [localParts |-> <<>>, globalParts |-> <<>>,
                                 warnings |-> 0, failed |-> FALSE])
     IN  styleOut' = IF acc.failed
                     THEN [NoCss EXCEPT !.failed = TRUE]
                     ELSE [done |-> TRUE, failed |-> FALSE,
                           warnings |-> acc.warnings,
                           localCss |-> CssOrNull(acc.localParts),
                           globalCss |-> CssOrNull(acc.globalParts)]
  /\ UNCHANGED styleFrame

\* the call returns
StyleReturn ==
  /\ styleOut.done \/ styleOut.failed
  /\ styleIn' = NoUnit
  /\ styleOut' = NoCss
  /\ UNCHANGED styleFrame

InitStyle ==
  /\ styleIn = NoUnit
  /\ styleOut = NoCss

----------------------------------------------------------------------------
\* interpolateTemplate (runtime/index.ts).  The text of a node is a sequence
\* of tokens: plain text, or a placeholder {{name}} with or without blanks
\* inside the braces.  A name and a key are strings, modelled as sequences of
\* characters; params is the list Object.entries(params), and its keys are
\* the route parameter names and the keys of the query string.

MaxTokens == 2                \* tokens of a text node
MaxParams == 2                \* entries of params

NameChars == {"a", "b"}
KeyChars == NameChars \cup {"."}
PlaceholderNames == {<<ch>> : ch \in NameChars}
ParamKeys == {<<ch>> : ch \in KeyChars}
ParamValues == {"v1", "v2"}

TextToken(s) == [ph |-> FALSE, s |-> s, name |-> <<>>, ws |-> FALSE]
Placeholder(name, ws) == [ph |-> TRUE, s |-> "", name |-> name, ws |-> ws]
Tokens ==
  {TextToken("t")} \cup {Placeholder(n, w) : n \in PlaceholderNames, w \in BOOLEAN}
Texts == SeqsUpTo(Tokens, MaxTokens)

\* Object.entries(params): the keys of an object are distinct
ParamLists ==
  {ps \in SeqsUpTo([key : ParamKeys, value : ParamValues], MaxParams) :
     \A i, j \in DOMAIN ps : i # j => ps[i].key # ps[j].key}

\* new RegExp(`\\{\\{\\s*${key}\\s*\\}\\}`, 'g') against {{ name }}: the key is
\* spliced into the pattern as it is, so a "." in it stands for any character
KeyMatches(key, name) ==
  /\ Len(key) = Len(name)
  /\ \A k \in DOMAIN key : key[k] = "." \/ key[k] = name[k]

\* text.replace(regex, String(value))
ReplaceAll(text, key, value) ==
  [k \in DOMAIN text |->
     IF text[k].ph /\ KeyMatches(key, text[k].name)
     THEN TextToken(value)
     ELSE text[k]]

\* for (const [key, value] of Object.entries(params)) text = text.replace(...)
RECURSIVE ReplaceEach(_, _)
ReplaceEach(text, ps) ==
  IF ps = <<>> THEN text
  ELSE ReplaceEach(ReplaceAll(text, Head(ps).key, Head(ps).value), Tail(ps))

\* text.includes('{{')
HasBraces(text) == \E k \in DOMAIN text : text[k].ph

InterpolateText(text, ps) == IF HasBraces(text) THEN ReplaceEach(text, ps) ELSE text

NoTplIn == [text |-> <<>>, params |-> <<>>]
NoTplOut == [done |-> FALSE, text |-> <<>>]

\* one text node of one connectedCallback
InterpolateTemplate(text, ps) ==
  /\ ~tplOut.done
  /\ tplIn' = [text |-> text, params |-> ps]
  /\ tplOut' = [done |-> TRUE, text |-> InterpolateText(text, ps)]
  /\ UNCHANGED tplFrame

\* the element is disconnected and a new one is mounted
TplReturn ==
  /\ tplOut.done
  /\ tplIn' = NoTplIn
  /\ tplOut' = NoTplOut
  /\ UNCHANGED tplFrame

InitTpl ==
  /\ tplIn = NoTplIn
  /\ tplOut = NoTplOut

----------------------------------------------------------------------------
\* One timing wrapper (runtime/index.ts): the closure that discovery builds
\* for a debounce or throttle annotation and installs as this[key].

MaxDelayArg == 2              \* the largest argument of a timing annotation
MaxCalls == 3                 \* calls of one wrapper
DelayArgs == {<<>>} \cup {<<n>> : n \in 0..MaxDelayArg}

NoWrap == [set |-> FALSE, type |-> NoType, args |-> <<>>, delay |-> 0]

\* const delay = Number(args[0]) || 200; let t = null / let last = 0;
\* Object.defineProperty(this, key, { value: wrapped })
InstallWrapper(type, args) ==
  /\ ~thWrap.set
  /\ thWrap' = [set |-> TRUE, type |-> type, args |-> args, delay |-> DelayOf(args)]
  /\ thLast' = NeverRan
  /\ thTimer' = NoTimer
  /\ UNCHANGED <<thNow, thCalls>>
  /\ UNCHANGED thFrame

\* wrapped(...a) is called
\*   debounce: if (t) clearTimeout(t); t = setTimeout(() => original(...a), delay)
\*   throttle: const now = Date.now(); if (now - last > delay) { last = now; original(...a) }
CallWrapper ==
  /\ thWrap.set
  /\ Len(thCalls) < MaxCalls
  /\ thTimer # thNow
  /\ IF thWrap.type = "debounce"
     THEN /\ thTimer' = DebounceDue(thNow, thWrap.delay)
          /\ thCalls' = Append(thCalls, [at |-> thNow, ran |-> FALSE])
          /\ UNCHANGED thLast
     ELSE IF ThrottlePass(thLast, thNow, thWrap.delay)
     THEN /\ thLast' = thNow
          /\ thCalls' = Append(thCalls, [at |-> thNow, ran |-> TRUE])
          /\ UNCHANGED thTimer
     ELSE /\ thCalls' = Append(thCalls, [at |-> thNow, ran |-> FALSE])
          /\ UNCHANGED <<thLast, thTimer>>
  /\ UNCHANGED <<thWrap, thNow>>
  /\ UNCHANGED thFrame

\* the setTimeout of the debounce wrapper expires: original(...a) runs
WrapperTimeout ==
  /\ thWrap.set
  /\ thTimer = thNow
  /\ thTimer' = NoTimer
  /\ UNCHANGED <<thWrap, thNow, thLast, thCalls>>
  /\ UNCHANGED thFrame

\* a millisecond passes
WrapperTick ==
  /\ thWrap.set
  /\ thNow < MaxTime
  /\ thTimer # thNow
  /\ thNow' = thNow + 1
  /\ UNCHANGED <<thWrap, thLast, thTimer, thCalls>>
  /\ UNCHANGED thFrame

InitTh ==
  /\ thWrap = NoWrap
  /\ thNow = 1
  /\ thLast = NeverRan
  /\ thTimer = NoTimer
  /\ thCalls = <<>>

----------------------------------------------------------------------------
\* The block extractor of transformSFC (index.ts).  The source text of a unit
\* is a sequence of tokens: the opening and closing tags of template and
\* script, and "<style>", a whole style element.

MaxSource == 5                \* tokens of a source text
TplOpen == "<template>"
TplClose == "</template>"
ScriptOpen == "<script>"
ScriptClose == "</script>"
StyleTag == "<style>"
SourceTokens == {TplOpen, TplClose, ScriptOpen, ScriptClose, StyleTag}
Sources == SeqsUpTo(SourceTokens, MaxSource)

\* the first position from `from` on that holds tok, 0 when there is none
FirstAt(src, tok, from) ==
  LET hits == {k \in from..Len(src) : src[k] = tok}
  IN  IF hits = {} THEN 0 ELSE CHOOSE k \in hits : \A h \in hits : k <= h

\* code.match(/<open[^>]*>([\s\S]*?)<\/open>/i): the first opening tag and the
\* first closing tag after it (the quantifier is lazy); m[0] as a text
NoMatch == <<>>
LazyMatch(src, open, close) ==
  LET o == FirstAt(src, open, 1)
      c == IF o = 0 THEN 0 ELSE FirstAt(src, close, o + 1)
  IN  IF c = 0 THEN NoMatch ELSE SubSeq(src, o, c)

\* scanSource is kept with the position each token had in code
Tagged(src) == [k \in DOMAIN src |-> [tok |-> src[k], pos |-> k]]
TextOf(scan) == [k \in DOMAIN scan |-> scan[k].tok]

\* scanSource.replace(m[0], ''): the first occurrence of the text is cut out
ReplaceFirst(scan, text) ==
  LET n == Len(text)
      at == {k \in 1..(Len(scan) - n + 1) : SubSeq(TextOf(scan), k, k + n - 1) = text}
  IN  IF text = NoMatch \/ at = {} THEN scan
      ELSE LET k == CHOOSE a \in at : \A b \in at : a <= b
           IN  SubSeq(scan, 1, k - 1) \o SubSeq(scan, k + n, Len(scan))

\* scanSource: code without templateMatch[0] and without scriptMatch[0]
ScanSource(src) ==
  LET templateMatch == LazyMatch(src, TplOpen, TplClose)
      scriptMatch == LazyMatch(src, ScriptOpen, ScriptClose)
  IN  ReplaceFirst(ReplaceFirst(Tagged(src), templateMatch), scriptMatch)

\* the matches of STYLE_GLOBAL_RE in scanSource, by their position in code
StylesFound(src) ==
  LET found == SelectSeq(ScanSource(src), LAMBDA t : t.tok = StyleTag)
  IN  [k \in DOMAIN found |-> found[k].pos]

NoSource == <<>>
NoScan == [done |-> FALSE, styles |-> <<>>]

\* one call of transformSFC
ScanStyles(src) ==
  /\ scanIn' = src
  /\ scanOut' = [done |-> TRUE, styles |-> StylesFound(src)]
  /\ UNCHANGED scanFrame

\* the call returns
ScanReturn ==
  /\ scanOut.done
  /\ scanIn' = NoSource
  /\ scanOut' = NoScan
  /\ UNCHANGED scanFrame

InitScan ==
  /\ scanIn = NoSource
  /\ scanOut = NoScan

----------------------------------------------------------------------------
\* attachStyles(root, css) (runtime/index.ts). A css text is the sequence of its
\* character codes.

MaxCssLen == 1                \* characters of a css text
CssChars == {97, 98}
CssTexts == SeqsUpTo(CssChars, MaxCssLen)
ShadowRoots == {"sr1", "sr2"}
LightRoots == {"el1", "el2"}   \* mount roots that are plain elements
AttachRoots == ShadowRoots \cup LightRoots
Document == "document"
DocumentHead == "head"

\* let hash = 5381; for each character: hash = ((hash << 5) + hash) + code;
\* key = String(hash >>> 0). For the texts explored the value stays below 2^31,
\* where << and >>> 0 leave it as it is.
RECURSIVE HashFrom(_, _)
HashFrom(hash, css) ==
  IF css = <<>> THEN hash
  ELSE HashFrom(((hash * 32) + hash) + Head(css), Tail(css))

HashSeed == 5381
KeyOf(css) == HashFrom(HashSeed, css)

\* host = root instanceof ShadowRoot ? root : document
HostOf(root) == IF root \in ShadowRoots THEN root ELSE Document
\* target = root instanceof ShadowRoot ? root : document.head
TargetOf(root) == IF root \in ShadowRoots THEN root ELSE DocumentHead

AppendStyleTag(root, css) ==
  styleTags' = [styleTags EXCEPT ![TargetOf(root)] = Append(@, css)]

\* env: whether host.adoptedStyleSheets is defined in this browser;
\* assignThrows: the assignment to adoptedStyleSheets throws (caught, line 112)
AttachStyles(root, css, env, assignThrows) ==
  /\ supportsAdopted \in {"unset", env}
  /\ supportsAdopted' = env
  /\ UNCHANGED attFrame
  /\ LET key == KeyOf(css)
         host == HostOf(root)
     IN IF css = <<>> \/ key \in attachedStylesMap[root]
        THEN UNCHANGED <<attachedStylesMap, sheetCache, adoptedStyleSheets, styleTags>>
        ELSE /\ attachedStylesMap' = [attachedStylesMap EXCEPT ![root] = @ \cup {key}]
             /\ IF env = "yes"
                THEN /\ sheetCache' = IF key \in DOMAIN sheetCache THEN sheetCache
                                      ELSE MapSet(sheetCache, key, css)
                     /\ IF key \in Range(adoptedStyleSheets[host])
                        THEN UNCHANGED <<adoptedStyleSheets, styleTags>>
                        ELSE IF assignThrows
                        THEN /\ AppendStyleTag(root, css)
                             /\ UNCHANGED adoptedStyleSheets
                        ELSE /\ adoptedStyleSheets' =
                                  [adoptedStyleSheets EXCEPT ![host] = Append(@, key)]
                             /\ UNCHANGED styleTags
                ELSE /\ AppendStyleTag(root, css)
                     /\ UNCHANGED <<sheetCache, adoptedStyleSheets>>

InitAttach ==
  /\ attachedStylesMap = [r \in AttachRoots |-> {}]
  /\ sheetCache = EmptyMap
  /\ adoptedStyleSheets = [h \in ShadowRoots \cup {Document} |-> <<>>]
  /\ styleTags = [t \in ShadowRoots \cup {DocumentHead} |-> <<>>]
  /\ supportsAdopted = "unset"

----------------------------------------------------------------------------
\* The SPA router (main.ts): navigateToRoute(fullPath, pushState).
\* Paths are atoms; none carries a query string or a route parameter.

MaxRoutes == 2                \* routes of the route table
MaxNavs == 2                  \* calls of navigateToRoute from outside
MaxNesting == 4               \* nested calls the call stack holds
RoutePaths == {"/a", "/b", "/404"}
RedirectTargets == {"/a", "/b"}
RequestPaths == {"/a", "/a/", "/b"}

\* p.replace(/\/$/, ''): '/foo/' and '/foo' are the same
Normalize(p) == IF p = "/a/" THEN "/a" ELSE p

\* a route of virtual:routes: a component route (tag and filePath named after
\* its path), a redirect route (isRedirect: 'true'), or a handlerOnly route
ComponentRoute(path) == [path |-> path, kind |-> "component", redirect |-> ""]
RedirectRoute(path, target) == [path |-> path, kind |-> "redirect", redirect |-> target]
HandlerRoute(path) == [path |-> path, kind |-> "handler", redirect |-> ""]
RouteSet ==
  {ComponentRoute(p) : p \in RoutePaths}
    \cup {RedirectRoute(p, t) : p \in RoutePaths, t \in RedirectTargets}
    \cup {HandlerRoute(p) : p \in RoutePaths}
RouteTables == SeqsUpTo(RouteSet, MaxRoutes)

\* for (const route of routes): the first route that is not handlerOnly and
\* whose path is the requested one; 0 when there is none
RECURSIVE MatchFrom(_, _, _)
MatchFrom(table, path, k) ==
  IF k > Len(table) THEN 0
  ELSE IF table[k].kind # "handler" /\ table[k].path = path THEN k
  ELSE MatchFrom(table, path, k + 1)

\* navigateToRoute up to the module load: no match calls navigateToRoute('/404',
\* pushState); a redirect route rewrites the history entry and calls
\* navigateToRoute(target, false). Both calls are made synchronously, before
\* any await, so they nest on the call stack; a call the stack cannot hold
\* throws a RangeError (kind "overflow").
RECURSIVE Resolve(_, _, _, _, _)
Resolve(table, fullPath, pushState, url, nested) ==
  LET path == Normalize(fullPath)
      m == MatchFrom(table, path, 1)
  IN IF m = 0 \/ table[m].kind = "redirect"
     THEN IF nested = MaxNesting
          THEN [kind |-> "overflow", path |-> path, push |-> pushState, url |-> url,
                nested |-> nested]
          ELSE IF m = 0
          THEN Resolve(table, "/404", pushState, url, nested + 1)
          ELSE Resolve(table, table[m].redirect, FALSE, table[m].redirect, nested + 1)
     ELSE [kind |-> "component", path |-> path, push |-> pushState, url |-> url,
           nested |-> nested]

NoElement == [nav |-> 0, tag |-> "", n |-> 0]
\* url: the URL this navigation gives the history entry (its own pushState, or
\* the redirect that led to it)
NoNav == [pc |-> "idle", path |-> "", push |-> FALSE, url |-> "", nested |-> 0, mounts |-> 0]
NoRoutes == [set |-> FALSE, list |-> <<>>]

\* performTransition: previous.remove(); el = createElement(tag); body.appendChild(el);
\* currentRouteElement = el
PerformTransition(dom, i, path, n) ==
  LET el == [nav |-> i, tag |-> path, n |-> n]
  IN [body |-> (dom.body \ {dom.current}) \cup {el}, current |-> el]

\* after the module is there: pushState when asked, then performTransition, at
\* once or inside document.startViewTransition (awaited). async: the browser
\* has startViewTransition and transitions are not disabled; the first
\* navigation to get here finds out, the mode stays.
PushAndMount(i, nav, url, async) ==
  /\ transitions.mode \in {"unset", IF async THEN "on" ELSE "off"}
  /\ location' = IF nav.push THEN nav.path ELSE url
  /\ IF async
     THEN /\ navs' = [navs EXCEPT ![i] = [nav EXCEPT !.pc = "transition"]]
          /\ transitions' = [mode |-> "on", queue |-> Append(transitions.queue, i)]
          /\ UNCHANGED <<body, currentRouteElement>>
     ELSE LET dom == PerformTransition([body |-> body, current |-> currentRouteElement],
                                       i, nav.path, 1)
          IN /\ navs' = [navs EXCEPT ![i] = [nav EXCEPT !.pc = "done", !.mounts = 1]]
             /\ transitions' = [transitions EXCEPT !.mode = "off"]
             /\ body' = dom.body
             /\ currentRouteElement' = dom.current

\* import { routes } from 'virtual:routes'
ImportRoutes(table) ==
  /\ ~routes.set
  /\ routes' = [set |-> TRUE, list |-> table]
  /\ UNCHANGED <<loadedModules, currentRouteElement, body, location, navs, lastNav,
                 transitions>>
  /\ UNCHANGED navFrame

\* a link is clicked: navigateToRoute(fullPath), up to its first await or its end;
\* async: a view transition is available and not disabled
NavigateToRoute(i, fullPath, async) ==
  /\ routes.set
  /\ i = lastNav + 1
  /\ lastNav' = i
  /\ LET r == Resolve(routes.list, fullPath, TRUE, location, 0)
         nav == [NoNav EXCEPT !.path = r.path, !.push = r.push, !.nested = r.nested,
                              !.url = IF r.push THEN r.path ELSE r.url]
     IN IF r.kind = "overflow"
        THEN /\ navs' = [navs EXCEPT ![i] = [nav EXCEPT !.pc = "overflow"]]
             /\ location' = r.url
             /\ UNCHANGED <<body, currentRouteElement, transitions>>
        ELSE IF r.path \in loadedModules
        THEN PushAndMount(i, nav, r.url, async)
        ELSE /\ navs' = [navs EXCEPT ![i] = [nav EXCEPT !.pc = "loading"]]
             /\ location' = r.url
             /\ UNCHANGED <<body, currentRouteElement, transitions>>
  /\ UNCHANGED <<routes, loadedModules>>
  /\ UNCHANGED navFrame

\* await modules[moduleKey]() resolves; imports of one module resolve in the
\* order they were made
ModuleLoaded(i, async) ==
  /\ navs[i].pc = "loading"
  /\ \A j \in 1..(i - 1) : ~(navs[j].pc = "loading" /\ navs[j].path = navs[i].path)
  /\ loadedModules' = loadedModules \cup {navs[i].path}
  /\ PushAndMount(i, navs[i], location, async)
  /\ UNCHANGED <<routes, lastNav>>
  /\ UNCHANGED navFrame

\* await modules[moduleKey]() rejects: logged, the navigation returns
ModuleFailed(i) ==
  /\ navs[i].pc = "loading"
  /\ navs' = [navs EXCEPT ![i].pc = "failed"]
  /\ UNCHANGED <<routes, loadedModules, currentRouteElement, body, location, lastNav,
                 transitions>>
  /\ UNCHANGED navFrame

\* the view transition calls performTransition (the callbacks run in the order
\* the transitions were started); when its finished promise rejects after
\* that, the catch clause calls performTransition once more
ViewTransition(i, rejected) ==
  /\ navs[i].pc = "transition"
  /\ transitions.queue # <<>> /\ Head(transitions.queue) = i
  /\ transitions' = [transitions EXCEPT !.queue = Tail(@)]
  /\ LET first == PerformTransition([body |-> body, current |-> currentRouteElement],
                                     i, navs[i].path, 1)
         dom == IF rejected THEN PerformTransition(first, i, navs[i].path, 2) ELSE first
     IN /\ body' = dom.body
        /\ currentRouteElement' = dom.current
        /\ navs' = [navs EXCEPT ![i].pc = "done", ![i].mounts = IF rejected THEN 2 ELSE 1]
  /\ UNCHANGED <<routes, loadedModules, location, lastNav>>
  /\ UNCHANGED navFrame

InitNav ==
  /\ routes = NoRoutes
  /\ loadedModules = {}
  /\ currentRouteElement = NoElement
  /\ body = {}
  /\ location = "/"
  /\ navs = [i \in 1..MaxNavs |-> NoNav]
  /\ lastNav = 0
  /\ transitions = [mode |-> "unset", queue |-> <<>>]

----------------------------------------------------------------------------
\* The shop database (shop-db.js): carts and shopDb.createOrder. Calls are
\* synchronous (better-sqlite3), so each runs to its end before the next.

MaxStock == 2                 \* products.stock of a product
MaxQty == 3                   \* quantity of a cart row
MaxOrders == 1                \* rows of the orders table
ProductIds == {1, 2}
Sessions == {"s1"}
Quantities == {0, 1, 2}       \* the quantity argument of the cart calls

\* the row of product in a cart (UNIQUE(session_id, product_id)), 0 when absent
CartRow(cart, product) ==
  IF \E k \in DOMAIN cart : cart[k].product = product
  THEN CHOOSE k \in DOMAIN cart : cart[k].product = product
  ELSE 0

\* INSERT ... ON CONFLICT(session_id, product_id) DO UPDATE SET quantity = quantity + excluded.quantity
UpsertCart(cart, product, quantity) ==
  LET k == CartRow(cart, product)
  IN IF k = 0 THEN Append(cart, [product |-> product, quantity |-> quantity])
     ELSE [cart EXCEPT ![k].quantity = @ + quantity]

\* UPDATE cart_items SET quantity = ? WHERE session_id = ? AND product_id = ?
SetCartQuantity(cart, product, quantity) ==
  [k \in DOMAIN cart |-> IF cart[k].product = product
                          THEN [cart[k] EXCEPT !.quantity = quantity] ELSE cart[k]]

\* DELETE FROM cart_items WHERE session_id = ? AND product_id = ?
DeleteCartRow(cart, product) == SelectSeq(cart, LAMBDA row : row.product # product)

ShopRet(op, session, out) == [op |-> op, session |-> session, out |-> out]

\* shopDb.addToCart: 'Insufficient stock' when product.stock < quantity; the
\* API hands over body.quantity || 1, so the quantity is not 0
AddToCart(session, product, quantity) ==
  /\ quantity # 0
  /\ IF stock[product] < quantity
     THEN /\ shopRet' = ShopRet("addToCart", session, "failed")
          /\ UNCHANGED cartItems
     ELSE LET cart == UpsertCart(cartItems[session], product, quantity)
          IN /\ \A k \in DOMAIN cart : cart[k].quantity <= MaxQty
             /\ cartItems' = [cartItems EXCEPT ![session] = cart]
             /\ shopRet' = ShopRet("addToCart", session, "ok")
  /\ UNCHANGED <<stock, orders>>
  /\ UNCHANGED shopFrame

\* shopDb.updateCartQuantity
UpdateCartQuantity(session, product, quantity) ==
  /\ IF quantity <= 0
     THEN /\ cartItems' = [cartItems EXCEPT ![session] = DeleteCartRow(@, product)]
          /\ shopRet' = ShopRet("updateCartQuantity", session, "ok")
     ELSE IF stock[product] < quantity
     THEN /\ shopRet' = ShopRet("updateCartQuantity", session, "failed")
          /\ UNCHANGED cartItems
     ELSE /\ cartItems' = [cartItems EXCEPT ![session] = SetCartQuantity(@, product, quantity)]
          /\ shopRet' = ShopRet("updateCartQuantity", session, "ok")
  /\ UNCHANGED <<stock, orders>>
  /\ UNCHANGED shopFrame

\* db.transaction(fn): an exception inside fn rolls back to the state before it
KeepPartial(before, tx) == tx
Rollback(before, tx) == before

\* the loop of createOrderTx: addOrderItem, then updateStock
\* (UPDATE ... SET stock = stock - ? WHERE id = ? AND stock >= ?); no row
\* changed throws
RECURSIVE OrderLoop(_, _)
OrderLoop(tx, items) ==
  IF items = <<>> THEN tx
  ELSE LET item == Head(items)
           n == Len(tx.orders)
           added == [tx EXCEPT !.orders[n].items = Append(@, item)]
       IN IF added.stock[item.product] >= item.quantity
          THEN OrderLoop([added EXCEPT !.stock[item.product] = @ - item.quantity],
                         Tail(items))
          ELSE [added EXCEPT !.threw = TRUE]

\* createOrderTx: insert the order, the loop, clearCart
CreateOrderTx(before, session, items) ==
  LET inserted == [before EXCEPT !.orders = Append(@, [session |-> session, items |-> <<>>])]
      looped == OrderLoop(inserted, items)
  IN IF looped.threw THEN Rollback(before, looped)
     ELSE [looped EXCEPT !.cartItems[session] = <<>>]

\* shopDb.createOrder(sessionId, customerInfo)
CreateOrder(session) ==
  /\ Len(orders) < MaxOrders
  /\ \A k \in DOMAIN cartItems[session] :
        stock[cartItems[session][k].product] - cartItems[session][k].quantity <= MaxStock
  /\ IF cartItems[session] = <<>>
     THEN /\ shopRet' = ShopRet("createOrder", session, "failed")
          /\ UNCHANGED <<stock, cartItems, orders>>
     ELSE LET before == [stock |-> stock, cartItems |-> cartItems, orders |-> orders,
                         threw |-> FALSE]
              after == CreateOrderTx(before, session, cartItems[session])
          IN /\ stock' = after.stock
             /\ cartItems' = after.cartItems
             /\ orders' = after.orders
             /\ shopRet' = ShopRet("createOrder", session,
                                   IF after.orders = orders \/ after.threw
                                   THEN "failed" ELSE "ok")
  /\ UNCHANGED shopFrame

InitShop ==
  /\ stock = [p \in ProductIds |-> MaxStock]
  /\ cartItems = [s \in Sessions |-> <<>>]
  /\ orders = <<>>
  /\ shopRet = ShopRet("none", "none", "none")

----------------------------------------------------------------------------
Init == InitCache /\ InitWire /\ InitTime /\ InitSrv /\ InitOpt /\ InitEx /\ InitLoad
        /\ InitRoute /\ InitStyle /\ InitTpl /\ InitTh
        /\ InitScan /\ InitPersist /\ InitAttach /\ InitNav /\ InitShop

CacheGet == \E id \in Ids : Get(id)
CacheSet == \E id \in Ids, data \in Codes : Set(id, data)
CacheInvalidate == \E id \in Ids : Invalidate(id)
CacheClear == Clear
FsModify == \E id \in Ids : ModifyFile(id)
FsDelete == \E id \in Ids : DeleteFile(id)

NextCache ==
  \/ CacheGet
  \/ CacheSet
  \/ CacheInvalidate
  \/ CacheClear
  \/ FsModify
  \/ FsDelete

SpecCache == Init /\ [][NextCache]_vars

\* the cache under payloads that differ; the files stay in place
RtSet == \E id \in Ids, data \in Payloads : Set(id, data)

NextRoundTrip ==
  \/ CacheGet
  \/ RtSet
  \/ CacheInvalidate
  \/ CacheClear
  \/ FsModify

SpecRoundTrip == Init /\ [][NextRoundTrip]_vars

\* the cache with its snapshot file: the persist timer may fire between any two calls
CachePersist == \E writeThrows \in BOOLEAN : Persist(writeThrows)

NextPersist ==
  \/ CacheGet
  \/ CacheSet
  \/ CacheInvalidate
  \/ CacheClear
  \/ FsModify
  \/ CachePersist

SpecPersist == Init /\ [][NextPersist]_vars

Attach ==
  \E root \in AttachRoots, css \in CssTexts, env \in {"yes", "no"}, assignThrows \in BOOLEAN :
     AttachStyles(root, css, env, assignThrows)

NextAttach == Attach

SpecAttach == Init /\ [][NextAttach]_vars

RouterImport == ~routes.set /\ \E table \in RouteTables : ImportRoutes(table)
RouterNavigate ==
  /\ lastNav < MaxNavs
  /\ \E fullPath \in RequestPaths, async \in BOOLEAN :
        NavigateToRoute(lastNav + 1, fullPath, async)
RouterLoaded == \E i \in 1..MaxNavs, async \in BOOLEAN : ModuleLoaded(i, async)
RouterFailed == \E i \in 1..MaxNavs : ModuleFailed(i)
RouterTransition == \E i \in 1..MaxNavs, rejected \in BOOLEAN : ViewTransition(i, rejected)

NextRouter ==
  \/ RouterImport
  \/ RouterNavigate
  \/ RouterLoaded
  \/ RouterFailed
  \/ RouterTransition

SpecRouter == Init /\ [][NextRouter]_vars

ShopAdd ==
  \E session \in Sessions, product \in ProductIds, quantity \in Quantities :
     AddToCart(session, product, quantity)
ShopUpdate ==
  \E session \in Sessions, product \in ProductIds, quantity \in Quantities :
     UpdateCartQuantity(session, product, quantity)
ShopOrder == \E session \in Sessions : CreateOrder(session)

NextShop ==
  \/ ShopAdd
  \/ ShopUpdate
  \/ ShopOrder

SpecShop == Init /\ [][NextShop]_vars

Construct == \E snap \in Snapshots : LoadFromDisk(snap)

NextLoad ==
  \/ Construct
  \/ Restart

SpecLoad == Init /\ [][NextLoad]_vars

RouteDerive == routePath = NoPath /\ \E p \in Paths : DeriveParams(p)

NextRoute == RouteDerive \/ RouteReturn

SpecRoute == Init /\ [][NextRoute]_vars

StyleTransform == styleOut = NoCss /\ \E u \in Units : TransformStyles(u)

NextStyle == StyleTransform \/ StyleReturn

SpecStyle == Init /\ [][NextStyle]_vars

TplInterpolate ==
  tplOut = NoTplOut /\ \E text \in Texts, ps \in ParamLists : InterpolateTemplate(text, ps)

NextTpl == TplInterpolate \/ TplReturn

SpecTpl == Init /\ [][NextTpl]_vars

WrapInstall == \E type \in TimingTypes, args \in DelayArgs : InstallWrapper(type, args)

NextWrapper == WrapInstall \/ CallWrapper \/ WrapperTimeout \/ WrapperTick

SpecWrapper == Init /\ [][NextWrapper]_vars

ScanUnit == scanOut = NoScan /\ \E src \in Sources : ScanStyles(src)

NextScan == ScanUnit \/ ScanReturn

SpecScan == Init /\ [][NextScan]_vars

WireCreate == \E i \in InstIds : Create(i)
WireConnect == \E i \in InstIds : Connect(i)
WireDisconnect == \E i \in InstIds : Disconnect(i)
WireUpdate == \E withTemplate \in BOOLEAN : ApplyUpdate(withTemplate)

NextWire ==
  \/ DefineComponent
  \/ WireCreate
  \/ WireConnect
  \/ WireDisconnect
  \/ RunMicrotask
  \/ WireUpdate

SpecWire == Init /\ [][NextWire]_vars

\* connections, disconnections and wiring microtasks, without hot updates
NextConnect ==
  \/ DefineComponent
  \/ WireCreate
  \/ WireConnect
  \/ WireDisconnect
  \/ RunMicrotask

SpecConnect == Init /\ [][NextConnect]_vars

TimeDispatch == \E i \in InstIds, type \in {"input", "change"} : Dispatch(i, type)
TimeFire == \E i \in InstIds, name \in MethodNames : FireTimer(i, name)

NextTiming ==
  \/ DefineComponent
  \/ WireCreate
  \/ WireConnect
  \/ RunMicrotask
  \/ TimeDispatch
  \/ TimeFire
  \/ Tick

SpecTiming == Init /\ [][NextTiming]_vars

SrvRead == \E r \in Requests : ReadFile(r)
SrvStat == \E r \in Requests : StatAndLookup(r)
SrvFinish == \E r \in Requests : FinishCompile(r)
SrvRespond == \E r \in Requests : Respond(r)

NextServer ==
  \/ SrvRead
  \/ SrvStat
  \/ SrvFinish
  \/ SrvRespond
  \/ WriteFile

SpecServer == Init /\ [][NextServer]_vars

OptDefine ==
  \E src \in ModuleIds, tag \in OptTags, template \in BOOLEAN :
    DefineOptions(src, tag, template)
OptNew == \E i \in OptInstIds : OptCreate(i)
OptAttach == \E i \in OptInstIds : OptConnect(i)
OptDetach == \E i \in OptInstIds : OptDisconnect(i)

NextOptions ==
  \/ OptDefine
  \/ OptNew
  \/ OptAttach
  \/ OptDetach

SpecOptions == Init /\ [][NextOptions]_vars

ExtractFirst == \E src \in Scripts : ExtractScript(src)

NextExtract ==
  \/ ExtractFirst
  \/ ExtractAgain

SpecExtract == Init /\ [][NextExtract]_vars

----------------------------------------------------------------------------
\* Claims about TransformCache (checked under SpecCache)

Size(c) == Cardinality(DOMAIN c)

\* C1: get(id, filePath) returns an entry only if the entry's recorded mtime
\* equals the file's current mtime; on a mismatch it removes the entry and
\* returns null; and an id that has no entry gets one only by set(id), so get
\* keeps returning null for it until then.
C1_GetStep ==
  /\ (ret'.op = "get" /\ ret'.out = "hit") =>
        /\ ret'.id \in DOMAIN cache
        /\ ret'.id \in DOMAIN cache'
        /\ cache'[ret'.id] = cache[ret'.id]
        /\ cache'[ret'.id].mtime = fileMtime'[ret'.id]
  /\ \A id \in DOMAIN cache :
        (/\ ret'.op = "get" /\ ret'.id = id
         /\ fileMtime[id] # NoFile
         /\ fileMtime[id] # cache[id].mtime) =>
           (ret'.out # "hit" /\ id \notin DOMAIN cache')
  /\ \A id \in Ids :
        (id \notin DOMAIN cache /\ id \in DOMAIN cache') =>
           (ret'.op = "set" /\ ret'.id = id)
C1_NeverStale == [][C1_GetStep]_vars

\* C1 witness: a get has just found the file's mtime changed and removed the entry
C1_Witness ==
  /\ ret.op = "get" /\ ret.out = "mismatch"
  /\ ret.id \notin DOMAIN cache
  /\ fileMtime[ret.id] # NoFile

\* C7: when set evicts, the entry it removes is the least recently used one:
\* its last use (a set, or a get that hit) is older than that of every other
\* entry present.
C7_EvictStep ==
  (ret'.op = "set" /\ (DOMAIN cache) \ (DOMAIN cache') # {}) =>
     (DOMAIN cache) \ (DOMAIN cache') = {Head(recency)}
C7_EvictsLeastRecentlyUsed == [][C7_EvictStep]_vars

\* C8: the number of entries never exceeds maxEntries
C8_SizeBounded == Size(cache) <= MaxEntries

\* C8 witness: a set into a full cache has just evicted and stored
C8_Witness ==
  /\ ret.op = "set" /\ ret.out = "evicted"
  /\ ret.id \in DOMAIN cache
  /\ Size(cache) = MaxEntries

\* C16: after set(id, payload), as long as the file's mtime is the one set
\* recorded and the entry was not invalidated, cleared or evicted, every
\* get(id) is a hit, and the entry it returns holds the payload's code.
C16_GetStep ==
  /\ \A id \in DOMAIN cache :
        (/\ ret'.op = "get" /\ ret'.id = id
         /\ fileMtime[id] = cache[id].mtime) =>
           /\ ret'.out = "hit"
           /\ id \in DOMAIN cache' /\ cache'[id].code = stored[id]
  /\ DOMAIN stored' = DOMAIN cache'
  /\ \A id \in DOMAIN cache' : cache'[id].code = stored'[id]
C16_RoundTrip == [][C16_GetStep]_vars

\* C16 witness: a get has just hit an entry whose payload differs from the one
\* another entry holds
C16_Witness ==
  /\ ret.op = "get" /\ ret.out = "hit"
  /\ ret.id \in DOMAIN cache /\ cache[ret.id].code = "c2"
  /\ \E other \in DOMAIN cache : cache[other].code = "c1"

\* C21: invalidate(id) evicts exactly the entry of id and leaves every other
\* entry unchanged; clear() evicts every entry; an id without an entry gets
\* null from get and gets an entry only by set(id); and an entry that is
\* present with the file's mtime is returned by get as it is.
C21_EvictStep ==
  /\ ret'.op = "invalidate" =>
        /\ ret'.id \notin DOMAIN cache'
        /\ DOMAIN cache' = (DOMAIN cache) \ {ret'.id}
        /\ \A other \in DOMAIN cache' : cache'[other] = cache[other]
  /\ ret'.op = "clear" => DOMAIN cache' = {}
  /\ \A id \in Ids \ DOMAIN cache :
        /\ (ret'.op = "get" /\ ret'.id = id) =>
              (ret'.out = "absent" /\ id \notin DOMAIN cache')
        /\ id \in DOMAIN cache' => (ret'.op = "set" /\ ret'.id = id)
  /\ \A id \in DOMAIN cache :
        (ret'.op = "get" /\ ret'.id = id /\ fileMtime[id] = cache[id].mtime) =>
           (ret'.out = "hit" /\ id \in DOMAIN cache' /\ cache'[id] = cache[id])
C21_ExplicitEviction == [][C21_EvictStep]_vars

\* C21 witness: invalidate has just removed one entry of a cache that held
\* two, and the other is still there
C21_Witness ==
  /\ ret.op = "invalidate" /\ ret.out = "removed"
  /\ ret.id \notin DOMAIN cache
  /\ Size(cache) = 1

\* C29: with persistence enabled, whenever dirty is false the snapshot file
\* holds exactly the entries of the in-memory cache
C29_CleanMeansSnapshotCurrent ==
  ~dirty => durable = cache

\* C30: a set that stores evicts only when the insert would push the entry
\* count above maxEntries: when id already has an entry, or the cache holds
\* fewer than maxEntries entries, the ids afterwards are the ids before plus id
C30_SetStep ==
  (ret'.op = "set" /\ ret'.out # "nostat" /\
   (ret'.id \in DOMAIN cache \/ Size(cache) < MaxEntries)) =>
     DOMAIN cache' = (DOMAIN cache) \cup {ret'.id}

C30_SetEvictsOnlyWhenNeeded == [][C30_SetStep]_vars

\* C37: accessOrder lists exactly the ids that have an entry in the Map, each
\* exactly once
C37_AccessOrderMirrorsCache ==
  /\ Range(accessOrder) = DOMAIN cache
  /\ Len(accessOrder) = Size(cache)

\* how many elements of the sequence s satisfy Test
CountIn(s, Test(_)) == Cardinality({k \in DOMAIN s : Test(s[k])})

\* how many times the css text is injected into an injection target: a shadow
\* root (its adopted sheets and its own <style> tags), or the document (its
\* adopted sheets and the <style> tags of document.head)
Injections(target, css) ==
  CountIn(adoptedStyleSheets[target], LAMBDA key : sheetCache[key] = css)
  + CountIn(styleTags[IF target = Document THEN DocumentHead ELSE target], LAMBDA t : t = css)

\* C31: the same css text is never injected more than once into the same
\* injection target, with adopted style sheets and with the style-tag fallback
C31_NoDuplicateInjection ==
  \A target \in ShadowRoots \cup {Document}, css \in CssTexts :
     Injections(target, css) <= 1

\* C33: navigateToRoute performs finitely many nested navigations for every
\* route table and path. A navigation that ends visits each route at most
\* once and the '/404' fallback once, so it nests at most Len(routes) + 1 calls
\* and never ends by exhausting the call stack.
C33_NavigationTerminates ==
  \A i \in 1..MaxNavs :
     /\ navs[i].pc # "overflow"
     /\ navs[i].nested <= Len(routes.list) + 1

\* C34: once every requested navigation has mounted its element, exactly one
\* route element is in the body, and that element and the URL belong to the
\* navigation requested last
C34_LastNavigationWins ==
  (lastNav > 0 /\ \A i \in 1..lastNav : navs[i].pc = "done") =>
     /\ Cardinality(body) = 1
     /\ \A el \in body : el.nav = lastNav
     /\ location = navs[lastNav].url

\* the quantity of product in a cart, 0 when it has no row
QuantityIn(cart, product) ==
  IF CartRow(cart, product) = 0 THEN 0 ELSE cart[CartRow(cart, product)].quantity

\* some row of the cart asks for more than the product's stock
Uncovered(cart) ==
  \E k \in DOMAIN cart : stock[cart[k].product] < cart[k].quantity

\* C36: createOrder is all-or-nothing. It fails when some cart row is not
\* covered by the stock; a failed call leaves orders, order items, stock and
\* carts as they were; a successful one adds one order holding exactly the
\* cart's rows, reduces each product's stock by the ordered quantity without
\* making it negative, and empties the session's cart.
C36_OrderStep ==
  shopRet'.op = "createOrder" =>
    LET session == shopRet'.session
        cart == cartItems[session]
    IN /\ Uncovered(cart) => shopRet'.out = "failed"
       /\ shopRet'.out = "failed" =>
             /\ stock' = stock
             /\ cartItems' = cartItems
             /\ orders' = orders
       /\ shopRet'.out = "ok" =>
             /\ orders' = Append(orders, [session |-> session, items |-> cart])
             /\ \A product \in ProductIds :
                   /\ stock'[product] = stock[product] - QuantityIn(cart, product)
                   /\ stock'[product] >= 0
             /\ cartItems' = [cartItems EXCEPT ![session] = <<>>]

C36_CreateOrderAllOrNothing == [][C36_OrderStep]_vars

\* C36 witness: createOrder has just failed on the second row of a cart whose
\* first row the stock covers (the order and the first row's stock update were
\* made inside the transaction and rolled back)
C36_Witness ==
  /\ shopRet.op = "createOrder" /\ shopRet.out = "failed"
  /\ \E session \in Sessions :
        LET cart == cartItems[session]
        IN /\ shopRet.session = session
           /\ Len(cart) = 2
           /\ stock[cart[1].product] >= cart[1].quantity
           /\ cart[1].quantity > 0
           /\ stock[cart[2].product] < cart[2].quantity
  /\ orders = <<>>

\* the regions with content the code puts in one class, in source order
RegionsOfClass(regions, global) ==
  SelectSeq(regions, LAMBDA r : r.content # <<>> /\ GlobalAttrTest(r.attrs) = global)

\* the SCSS regions with content whose compilation fails
FailingRegions(u) ==
  {k \in DOMAIN u.regions :
     /\ u.regions[k].content # <<>>
     /\ IsScss(u.regions[k].attrs)
     /\ SassThrows(u.regions[k].content, u.sass)}

\* the CSS a region contributes when its compilation fails or is not asked
\* for: its raw text; otherwise the compiler's output
CssOfRegion(r, sass) ==
  IF IsScss(r.attrs) /\ ~SassThrows(r.content, sass)
  THEN SassCompile(r.content)
  ELSE r.content

\* C22: a failure of the SCSS compiler for a region never fails the
\* transform: the region's raw text is used as its CSS, one diagnostic comment
\* per failed region goes to the module, and every other region is still
\* produced.
C22_SassFailureFallsBack ==
  /\ ~styleOut.failed
  /\ styleOut.done =>
        LET locals == RegionsOfClass(styleIn.regions, FALSE)
            globals == RegionsOfClass(styleIn.regions, TRUE)
        IN  /\ styleOut.warnings = Cardinality(FailingRegions(styleIn))
            /\ styleOut.localCss =
                  CssOrNull([k \in DOMAIN locals |-> CssOfRegion(locals[k], styleIn.sass)])
            /\ styleOut.globalCss =
                  CssOrNull([k \in DOMAIN globals |-> CssOfRegion(globals[k], styleIn.sass)])

\* C22 witness: the compiler is installed, one SCSS region failed to compile
\* and another region of the unit compiled
C22_Witness ==
  /\ styleOut.done /\ styleIn.sass
  /\ styleOut.warnings = 1
  /\ \E k \in DOMAIN styleIn.regions :
        /\ k \notin FailingRegions(styleIn)
        /\ IsScss(styleIn.regions[k].attrs)
        /\ styleIn.regions[k].content # <<>>

\* the positions of thCalls at which the original ran
ThrottleRuns == {k \in DOMAIN thCalls : thCalls[k].ran}

\* C23: a throttle wrapper with delay d runs the original at most once per
\* interval: two runs are more than d milliseconds apart, and a call that
\* arrives within d of the last run is dropped.
C23_ThrottleAtMostOncePerInterval ==
  (thWrap.set /\ thWrap.type = "throttle") =>
     /\ \A j, k \in ThrottleRuns :
           j < k => thCalls[k].at - thCalls[j].at > thWrap.delay
     /\ \A k \in DOMAIN thCalls :
           (\E j \in ThrottleRuns : j < k /\ thCalls[k].at - thCalls[j].at <= thWrap.delay)
              => ~thCalls[k].ran

\* C23 witness: a throttled call ran, a call within the delay was dropped and
\* a call after the delay ran again
C23_Witness ==
  /\ thWrap.set /\ thWrap.type = "throttle"
  /\ Len(thCalls) = 3
  /\ thCalls[1].ran /\ ~thCalls[2].ran /\ thCalls[3].ran
  /\ thCalls[2].at > thCalls[1].at

\* C26: the delay of a timing wrapper is the annotation's numeric argument
\* whenever one is given, 0 included, and 200 only when it is omitted.
C26_DelayIsTheArgument ==
  thWrap.set =>
     thWrap.delay = (IF thWrap.args = <<>> THEN DefaultDelay ELSE thWrap.args[1])

\* The regions of a unit as its markup nests: read from the left, a template
\* opened at the top level lasts to the closing tag that matches it, nested
\* templates included; a script opened at the top level lasts to the next
\* closing script tag.  walk.inside: the positions strictly inside a region;
\* walk.ok: every tag at the top level opens a region and every region is closed.
RECURSIVE WalkRegions(_, _, _)
WalkRegions(src, k, walk) ==
  IF k > Len(src) THEN [walk EXCEPT !.ok = @ /\ walk.mode = "top"]
  ELSE LET tok == src[k]
           in == [walk EXCEPT !.inside = @ \cup {k}]
       IN  CASE walk.mode = "top" ->
                  WalkRegions(src, k + 1,
                    IF tok = TplOpen
                    THEN [walk EXCEPT !.mode = "template", !.depth = 1, !.templates = @ + 1]
                    ELSE IF tok = ScriptOpen
                    THEN [walk EXCEPT !.mode = "script", !.scripts = @ + 1]
                    ELSE IF tok = StyleTag THEN walk
                    ELSE [walk EXCEPT !.ok = FALSE])
             [] walk.mode = "template" ->
                  WalkRegions(src, k + 1,
                    IF tok = TplOpen THEN [in EXCEPT !.depth = @ + 1]
                    ELSE IF tok = TplClose
                    THEN IF walk.depth = 1 THEN [walk EXCEPT !.mode = "top", !.depth = 0]
                         ELSE [in EXCEPT !.depth = @ - 1]
                    ELSE in)
             [] OTHER ->
                  WalkRegions(src, k + 1,
                    IF tok = ScriptClose THEN [walk EXCEPT !.mode = "top"] ELSE in)

UnitRegions(src) ==
  WalkRegions(src, 1, [mode |-> "top", depth |-> 0, inside |-> {}, ok |-> TRUE,
                       templates |-> 0, scripts |-> 0])

\* a unit with at most one template block and one script block, all closed
WellFormed(src) ==
  LET w == UnitRegions(src) IN w.ok /\ w.templates <= 1 /\ w.scripts <= 1

\* C24: a style tag inside the unit's template region or script region is
\* never taken for a style region of the unit, also when the template holds
\* nested template tags.
C24_EmbeddedStyleIsNotARegion ==
  (scanOut.done /\ WellFormed(scanIn)) =>
     \A k \in DOMAIN scanOut.styles : scanOut.styles[k] \notin UnitRegions(scanIn).inside

\* C25: every zero-script unit yields a registrable element: once its module
\* (opts without a tag, with the unit's template) has been evaluated, a custom
\* element is registered that mounts that unit's template, also when another
\* zero-script unit was loaded before.
C25_ZeroScriptUnitIsRegistered ==
  (optLast.called /\ optLast.tag = NoTag /\ optLast.template) =>
     \E e \in optElements : e.src = optLast.src /\ e.template

\* C17: when the reload of the snapshot fails at any point (missing,
\* unreadable, unparsable, malformed, a malformed element in the middle of the
\* entry list), the cache is empty afterwards.
C17_FailedReloadLeavesCacheEmpty ==
  (snapshot.loaded /\ snapshot.failed) => (cache = EmptyMap /\ accessOrder = <<>>)

\* the positions of the path where a `:name` token starts
ParamStarts(p) == {i \in 1..(Len(p) - 1) : p[i] = ":" /\ IsNameStart(p[i + 1])}

\* the name of the token that starts at position i: the longest run of name
\* characters after the colon
NameAfter(p, i) ==
  LET stops == {j \in (i + 1)..(Len(p) + 1) : j = Len(p) + 1 \/ ~IsNamePart(p[j])}
      e == CHOOSE j \in stops : \A k \in stops : j <= k
  IN  SubSeq(p, i + 1, e - 1)

\* the k-th element of a set of positions, from the left
KthStart(S, k) == CHOOSE i \in S : Cardinality({j \in S : j < i}) = k - 1

\* C18: paramNames has exactly one entry per `:name` token of the path, in
\* left-to-right order, repeated names kept: a path with N tokens yields a
\* list of length N whose k-th entry is the name of the k-th token.
C18_ParamNamesMirrorPath ==
  LET S == ParamStarts(routePath)
  IN  /\ Len(paramNames) = Cardinality(S)
      /\ \A k \in 1..Len(paramNames) :
            paramNames[k] = NameAfter(routePath, KthStart(S, k))

\* a path with the same name in two segments: both entries are kept
C18_Witness ==
  /\ routePath = <<":", "a", "/", ":", "a">>
  /\ paramNames = <<(<<"a">>), <<"a">>>>

\* the opening tag carries the global marker: it has the attribute `global`
CarriesGlobalMarker(r) == \E a \in r.attrs : a.name = <<"global">>

\* what the regions of one class contribute: the compiled content of those
\* that have content, in source order; Null when none contributes
CssOfClass(regions, sass) ==
  LET full == SelectSeq(regions, LAMBDA r : r.content # <<>>)
  IN  CssOrNull([k \in DOMAIN full |-> Compiled(full[k], sass).css])

\* C19: the style regions are partitioned without mixing: a region whose
\* opening tag carries the global marker contributes only to globalCss, every
\* other region only to scopedCss, regions of one class are concatenated in
\* source order, and a unit with a scoped and a global region yields both
\* outputs non-null.
C19_StylePartition ==
  styleOut.done =>
    LET regions == styleIn.regions
        marked == SelectSeq(regions, CarriesGlobalMarker)
        plain == SelectSeq(regions, LAMBDA r : ~CarriesGlobalMarker(r))
    IN  /\ styleOut.globalCss = CssOfClass(marked, styleIn.sass)
        /\ styleOut.localCss = CssOfClass(plain, styleIn.sass)
        /\ (/\ \E k \in DOMAIN marked : marked[k].content # <<>>
            /\ \E k \in DOMAIN plain : plain[k].content # <<>>)
             => (styleOut.globalCss # Null /\ styleOut.localCss # Null)

\* params has the key `name`
HasKey(ps, name) == \E k \in DOMAIN ps : ps[k].key = name

\* params[name]
ValueOf(ps, name) == (CHOOSE e \in Range(ps) : e.key = name).value

\* C20: interpolation replaces each {{name}} placeholder, blanks inside the
\* braces tolerated, by the value of params[name], and leaves every
\* placeholder whose name is not a key of params unmodified.
C20_InterpolationByKey ==
  tplOut.done =>
    \A k \in DOMAIN tplIn.text :
      LET tok == tplIn.text[k]
      IN  tok.ph =>
            IF HasKey(tplIn.params, tok.name)
            THEN tplOut.text[k] = TextToken(ValueOf(tplIn.params, tok.name))
            ELSE tplOut.text[k] = tok

----------------------------------------------------------------------------
\* Claims about the runtime wiring engine (checked under SpecWire)

\* the microtask of a connection of i has not run yet
Pending(i) == \E k \in DOMAIN microtasks : microtasks[k] = i

\* the listeners attached to el on behalf of i for the event binding of method name
ListenersOn(i, el, name) ==
  Cardinality({k \in DOMAIN attached[i] :
                 attached[i][k].el = el /\ attached[i][k].name = name})

EventMethods == {"onBtn", "onType", "onChange"}

\* C2: whenever a class-component instance is disconnected, none of the
\* listeners attached on its behalf remain attached, for every interleaving of
\* connectedCallback, disconnectedCallback and the wiring microtask.
C2_NoListenerWhenDisconnected ==
  \A i \in InstIds : inst[i].st # "connected" => attached[i] = <<>>

\* C3: once the wiring of a connection has run, every element under the mount
\* root that matches the selector carries exactly one listener of the
\* annotation, after the first connection and after any sequence of
\* disconnections and reconnections (instances no hot update was applied to).
C3_OneListenerPerMatch ==
  \A i \in InstIds :
     (inst[i].st = "connected" /\ ~Pending(i) /\ ~inst[i].updated) =>
        \A el \in inst[i].children : ListenersOn(i, el, "onBtn") = 1

C27_TemplateMountedOnce ==
  \A i \in InstIds :
     inst[i].st = "connected" => Cardinality(inst[i].children) = 1

\* an instance whose only connection has been wired: connected once, never
\* disconnected, no hot update applied
WiredOnce(i) ==
  inst[i].st = "connected" /\ ~Pending(i) /\ ~inst[i].updated /\ ~inst[i].everDisc

\* C28: an instance wired from the cached WiringPlan gets the same wiring as
\* the instance wired during discovery: the same listeners (type, target,
\* original or timing-wrapped handler) and the same timing wrappers.
C28_CachedWiringEqualsDiscovery ==
  \A i, j \in InstIds :
     (WiredOnce(i) /\ WiredOnce(j) /\ inst[i].ctor = inst[j].ctor) =>
        /\ attached[i] = attached[j]
        /\ inst[i].own = inst[j].own

\* the delay annotated on a method of the class: the argument of its timing annotation
AnnotatedDelay(ctor, name) ==
  LET m == CHOOSE x \in Range(ClassMethods(ctor)) : x.name = name
      d == CHOOSE x \in Range(m.decs) : StripOn(x.type) \in TimingTypes
  IN d.args[1]

\* C35: a timing wrapper is installed at most once per instance, also when the
\* instance is disconnected and connected again: between a call and the original
\* there is one wrapper, and its delay is the annotated delay
C35_WrappedOncePerInstance ==
  \A i \in InstIds : \A name \in DOMAIN inst[i].own :
     /\ inst[i].own[name].layers = 1
     /\ inst[i].own[name].delay = AnnotatedDelay(inst[i].ctor, name)

\* C35 witness: an instance that was disconnected is connected again, its wiring
\* has run again, and it holds a debounced method
C35_Witness ==
  \E i \in InstIds :
     /\ inst[i].everDisc /\ inst[i].st = "connected" /\ ~Pending(i)
     /\ Cardinality(inst[i].children) = 2
     /\ "onType" \in DOMAIN inst[i].own

\* C6: prototype-chain discovery runs exactly once per registered constructor,
\* however many instances connect; an instance created after a re-registration
\* belongs to the new constructor, which gets a discovery of its own.
C6_DiscoveryOncePerConstructor ==
  /\ \A c \in 1..MaxCtor : discoveries[c] <= 1
  /\ \A i \in InstIds :
        inst[i].st # "none" =>
           /\ inst[i].ctor = inst[i].expect
           /\ (inst[i].params = "set" => discoveries[inst[i].expect] = 1)

\* C9: routeParams, queryParams and params are populated before the authored
\* connectedCallback of a connection starts to run.
C9_ParamsBeforeConnectedCallback ==
  \A i \in InstIds : inst[i].seen # "unset"

\* the listeners in att on el for the method name
CountOn(att, el, name) ==
  Cardinality({k \in DOMAIN att : att[k].el = el /\ att[k].name = name})

\* C12: the failure of wiring one annotated method (the invalid selector of
\* onBad) prevents neither the wiring of the other annotated methods nor the
\* completion of the connection: every run of the wiring microtask adds one
\* listener of onBtn to every matching element, one of onType and one of
\* onChange to the component root, and computes the route parameters; on the
\* discovery path and on the cached-plan path.
C12_WiringStep ==
  (microtasks # <<>> /\ microtasks' = Tail(microtasks)) =>
     LET i == Head(microtasks)
     IN /\ inst'[i].params = "set"
        /\ \A el \in inst[i].children :
              CountOn(attached'[i], el, "onBtn") = CountOn(attached[i], el, "onBtn") + 1
        /\ \A name \in {"onType", "onChange"} :
              CountOn(attached'[i], RootEl, name) = CountOn(attached[i], RootEl, name) + 1
        /\ \A el \in {RootEl} \cup inst[i].children :
              CountOn(attached'[i], el, "onBad") = 0
C12_FailureIsContained == [][C12_WiringStep]_vars

\* C12 witness: the plan holds the failing wire, one instance was wired by
\* discovery and another one from the cached plan, and both completed
C12_Witness ==
  \E c \in 1..MaxCtor :
     /\ wiringCache[c].set
     /\ \E k \in DOMAIN wiringCache[c].plan : wiringCache[c].plan[k].selector = BadSelector
     /\ \A i \in InstIds :
           /\ inst[i].ctor = c /\ inst[i].st = "connected" /\ ~Pending(i)
           /\ inst[i].params = "set"
           /\ \A el \in inst[i].children : ListenersOn(i, el, "onBtn") >= 1

----------------------------------------------------------------------------
\* Claims about the timing wrappers (checked under SpecTiming)

\* the methods that carry an event binding and a debounce annotation
DebouncedBindings ==
  {[name |-> "onType", type |-> "input"], [name |-> "onChange", type |-> "change"]}

EventTimes(i, type) ==
  {events[i][k].at : k \in {j \in DOMAIN events[i] : events[i][j].type = type}}

\* the last event of each burst: no later event follows within less than the delay
BurstEnds(i, type) ==
  {e \in EventTimes(i, type) :
     \A e2 \in EventTimes(i, type) : e2 <= e \/ e2 >= e + DebounceArg}

CallsAt(i, name, at) ==
  Cardinality({k \in DOMAIN calls[i] : calls[i][k].name = name /\ calls[i][k].at = at})

\* C10: for a method bound to an event and debounced with delay d, a burst of
\* events invokes the original exactly once, d after the last event of the
\* burst; for every instance, the first connected as well as later ones.
C10_DebouncedOncePerBurst ==
  \A i \in InstIds : \A b \in DebouncedBindings :
     /\ \A k \in DOMAIN calls[i] :
           calls[i][k].name = b.name =>
              (calls[i][k].at - DebounceArg) \in BurstEnds(i, b.type)
     /\ \A e \in BurstEnds(i, b.type) :
           e + DebounceArg < now => CallsAt(i, b.name, e + DebounceArg) = 1

----------------------------------------------------------------------------
\* Claims about the dev server's transform cache (checked under SpecServer)

\* the sum of the size fields of the entries a Map holds
RECURSIVE SumOfSizes(_)
SumOfSizes(m) ==
  IF m = <<>> THEN 0 ELSE Head(m).value.size + SumOfSizes(Tail(m))

\* C38: currentCacheSize equals the sum of the size fields of the entries held,
\* and so the total cached size stays within MAX_CACHE_SIZE
C38_SizeCounterIsExact ==
  /\ currentCacheSize = SumOfSizes(transformedCache)
  /\ SumOfSizes(transformedCache) <= MAX_CACHE_SIZE

\* C5: no cache hit returns code generated from an older text: an entry never
\* pairs the file's current mtime with a payload compiled from earlier content,
\* whatever the interleaving of compiles and file writes.
C5_NoStaleEntry ==
  /\ LET cached == SeqGet(transformedCache, SfcPath)
     IN (cached # Null /\ cached.mtime = srvFile.mtime) =>
           cached.code = Transform(srvFile.text)
  /\ \A r \in Requests :
        req[r].hit => req[r].code = Transform(req[r].textAtHit)

----------------------------------------------------------------------------
\* Claims about the options shape (checked under SpecOptions)

\* C11: a defineComponent(opts) call whose tag is missing or has no hyphen
\* reports an error to its caller and defines no custom element.
C11_InvalidTagIsHardFailure ==
  (optLast.called /\ ~IsValidName(optLast.tag)) =>
     (optLast.outcome = "threw" /\ optLast.defined = NoTag)

\* C32: the authored connectedCallback has run exactly once for the current
\* connection of every connected instance of an options-object component
C32_ConnectedCallbackOnce ==
  \A i \in OptInstIds :
     optInst[i].st = "connected" => optInst[i].cbCalls = 1

\* C13: a connected instance of the options shape carries, for the click
\* annotation of its method, one listener on every element matching the
\* selector, as an instance of the class shape does.
C13_OptionsShapeIsWired ==
  \A i \in OptInstIds :
     (optInst[i].st = "connected" /\ optInst[i].children > 0) =>
        \A m \in DOMAIN OptsMethods :
           Cardinality({k \in DOMAIN optInst[i].listeners :
                          optInst[i].listeners[k].name = OptsMethods[m].name})
             = optInst[i].children

----------------------------------------------------------------------------
\* Claims about the annotation extractor (checked under SpecExtract)

\* C14: the strategies are tried in the order tree pass, marker-comment pass,
\* stripping pass, and the first that succeeds produces the result: a regex
\* or stripping pass produces it only after the tree pass was attempted and
\* failed, the stripping pass only after the marker pass failed too; and some
\* strategy always produces a result.
C14_StrategyOrder ==
  exIn # NoScript =>
     /\ exOut.by \in {"quick", "tree", "marker", "strip"}
     /\ exOut.by \in {"quick", "marker", "strip"} => "tree" \in exOut.failed
     /\ exOut.by = "strip" => "marker" \in exOut.failed

\* C15: the script the extractor returns holds no annotation, whichever
\* strategy produced it and for both shapes; run on its own output the
\* extractor returns that script unchanged with no metadata.
C15_OutputIsStripped ==
  exOut.by # "none" =>
     /\ Annotations(exOut.script) = {}
     /\ exOut.again => (exOut.script = exIn /\ exOut.meta = <<>>)

====
